---- MODULE Spec2Model ----
(***************************************************************************)
(* A model of the climate-policy crawlers (code and files/crawl/*.py):     *)
(* the fetcher, the per-item extraction / year filter / incremental writer *)
(* and the run orchestrators.  Text is modelled as a sequence of one-      *)
(* character strings, so that strip(), replace(), split(), isdigit() and   *)
(* int() are computed the way Python computes them.                        *)
(***************************************************************************)
EXTENDS Integers, Sequences, FiniteSets, TLC

VARIABLES
    crawler,        \* the script whose code is running
    title_raw,      \* text node the title selector yields (or Missing)
    year_raw,       \* text node the year selector yields (or Missing)
    Policy,         \* the extracted title field
    Year,           \* the extracted year field
    verdict,        \* what the per-item code did with the item
    store,          \* the output file: "absent" or the sequence of its rows
    saved_count,
    skipped_count,
    ipc,            \* position of the per-item code: "idle" | "item" | "done"
    fetcher,        \* whose get_page / parse is being called
    max_retries,    \* its max_retries argument (MAX_RETRIES where it is a constant)
    attempt,        \* the loop variable of its retry loop
    fpc,            \* position of the call: "idle" | "running" | "returned" | "raised"
    result,         \* what the call returned
    log,            \* the requests issued and the sleeps slept, in order
    error_count,
    rpc,            \* position of the main script: "off" | "header" | "estimate" | "loop" | "items" | "done" | "crashed"
    total_pages,
    current_page,
    consecutive_empty_pages,
    items_left,     \* entries of url2_list the inner loop has not reached yet
    iterations,     \* history: passes of the main loop begun by this process
    all_empty,      \* history: every pass so far found a listing page with no item
    appended,       \* history: rows appended to the store by all processes so far
    starts,         \* history: processes started so far
    torn,           \* history: a process was interrupted inside the header creation
    zero_pages,     \* history: zero-item listing pages since the last page that had items
    last_outcome,   \* history: outcome of the last listing iteration ("none" before the first)
    filtered,       \* history: items of this run that reached the year filter
    store_before,   \* history: the output file as the download run found it
    chunks,         \* the part of the response body not yet received
    ppc,            \* position of the worker-pool script: "off" | "listing" | "pool" | "done" | "killed"
    i_1,            \* its page loop variable
    page_number,
    task,           \* the parse_detail calls of the current page, one per item
    valid_results,
    next_result,    \* the result the main thread waits for next (pool.map keeps order)
    empty_run,      \* history: listing pages in a row that had no item, up to now
    write_failed,   \* history: position in valid_results of the row whose write raised (0: none)
    batch_base,     \* history: length of the file when the last batch write began
    passed,         \* history: records the year filter has accepted
    rejected,       \* history: records the year filter has rejected
    mpc,            \* position of MEE_PRC's main(): "off" | "page" | "entries" | "done"
    category_index,
    page_num,
    entries_left,   \* rows of url_2_list the inner loop has not reached yet
    last_listing,   \* history: where the last listing fetch was made, and its outcome
    exhausted,      \* history: get_page calls of the run that failed on every attempt
    detail_raised,  \* history: items of the run whose extract_policy_details raised inside its try
    mgpc,           \* position of the merge scripts: "off" | "loaded" | "merged" | ...
    old_data,       \* the older snapshot: its rows, <<>> when there is no file
    new_data,       \* the newer snapshot
    merged_data,    \* combined_df / merged_df: the rows kept, with their helper columns
    remerged,       \* the rows kept when the result is merged with new_data again
    gpc,            \* position of the script: "off" | "called" (get_total_pages) | "returned" | "listing" | "raised"
    first_page,     \* what get_page and the four pagination selectors give for the root page
    total,          \* what get_total_pages returned (0 before it returns)
    opc,            \* position of run_all_crawlers.main: "off" | "args" | "loop" | "finally" | "returned" | "finished"
    crawlers_to_run,\* the selected crawlers, in the order of CRAWLERS
    run_index,      \* the loop variable i of main's for loop
    successful_crawlers,\* counter
    failed_crawlers,\* counter
    crawler_results,\* crawler name -> status of its run
    launched,       \* history: the crawlers run_crawler was called for, in order
    interrupted,    \* history: a KeyboardInterrupt ended the loop
    summary_printed,\* history: print_final_summary was called
    report,         \* history: "none" | "saved" | "failed" (save_execution_report could not write)
    min_year_in_file, \* the MIN_YEAR line of each crawler file, 0 for a file that has none
    ended_by,       \* history: the return main() took before the loop, "none" when it took none
    caller,         \* the script whose loop calls get_page: "none" | "APEP" | "GOV_PRC" | "MEE_PRC"
    n_p,            \* the loop variable of GOV_PRC's `for n_p in range(3)` around get_page(url)
    unit,           \* what the URL being fetched is: "listing" | "detail"
    units,          \* history: the number of URLs worked on so far
    requests_before,\* history: requests sent to this URL by earlier calls of get_page
    spc,            \* position of merge_crawler_results.main: "off" | "merging" | "summary"
    websites,       \* the number of websites the loop of main has processed
    total_old_records,\* merge_stats['total_old_records']
    total_new_records,\* merge_stats['total_new_records']
    total_merged_records,\* merge_stats['total_merged_records']
    total_duplicates_removed,\* merge_stats['total_duplicates_removed']
    save_failed,    \* history: a to_csv of a merged table raised
    kpc,            \* position of GOV_PRC_crawl: "off" | "page" | "break" | "done"
    gov_category,   \* category_index + 1 of the for loop over num_list
    n_k,            \* page index of the API request
    last_full,      \* the server: pages 1..last_full of the category have items
    server_tail,    \* the server: what it answers for every page after last_full
    handled,        \* history: the outer `except Exception` of the page loop ran on the last pass
    dpc,            \* position of download_climate_policy_data: "off" | "waiting" | "found" | "returned" | "timeout"
    now,            \* time.time(), in ticks
    start_time,     \* start_time of wait_for_download_completion
    download_dir,   \* the files of ../data_new: name, modification time, who wrote it
    downloaded_file,\* the file wait_for_download_completion returned, NoFile before
    final_file      \* the file download_climate_policy_data returned, NoFile before

itemVars == <<crawler, title_raw, year_raw, Policy, Year, verdict, ipc>>
storeVars == <<store, saved_count, skipped_count>>
fetchVars == <<fetcher, max_retries, attempt, fpc, result, log, error_count>>
runVars == <<rpc, total_pages, current_page, consecutive_empty_pages, items_left,
             iterations, all_empty, appended, starts, torn, zero_pages,
             last_outcome, filtered>>
eeaVars == <<store_before, chunks>>
poolVars == <<ppc, i_1, page_number, task, valid_results, next_result, empty_run,
              write_failed, batch_base, passed, rejected>>
catVars == <<mpc, category_index, page_num, entries_left, last_listing, exhausted, detail_raised>>
mergeVars == <<mgpc, old_data, new_data, merged_data, remerged>>
pagesVars == <<gpc, first_page, total>>
orchVars == <<opc, crawlers_to_run, run_index, successful_crawlers, failed_crawlers, crawler_results, launched, interrupted, summary_printed, report, min_year_in_file, ended_by>>
callVars == <<caller, n_p, unit, units, requests_before>>
statsVars == <<spc, websites, total_old_records, total_new_records, total_merged_records, total_duplicates_removed, save_failed>>
govVars == <<kpc, gov_category, n_k, last_full, server_tail, handled>>
downVars == <<dpc, now, start_time, download_dir, downloaded_file, final_file>>
vars == <<itemVars, storeVars, fetchVars, runVars, eeaVars, poolVars, catVars, mergeVars, pagesVars, orchVars, callVars, statsVars, govVars, downVars>>

(***************************************************************************)
(* Bounds of the model                                                     *)
(***************************************************************************)
MaxYearLen == 4
MaxTitleLen == 2
MaxRetriesArg == 3      \* largest max_retries argument passed to get_page
MaxLastPage == 3        \* largest page number in the pager's last link
MaxItemsPerPage == 2    \* most items on a listing page
MaxAppends == 2         \* most rows appended to the store
MaxSkipped == 1         \* most items a process skips
MaxStarts == 2          \* most process starts
MaxBodyRows == 2        \* most data rows in a downloaded file
MaxPoolPages == 4       \* largest page_number of the worker-pool crawler
MaxPoolItems == 2       \* most items on one of its listing pages
MaxPageNum == 2         \* most pages of a category that have entries
MaxErrors == 2          \* most failed get_page calls counted

(***************************************************************************)
(* Program constants                                                       *)
(***************************************************************************)
MIN_YEAR == 2021
MEE_PRC_MAX_RETRIES == 3
MEE_PRC_RETRY_DELAY == 2
Non_Thread_MAX_RETRIES == 3
Non_Thread_RETRY_DELAY == 2
max_empty_pages == 3
DEFAULT_TOTAL_PAGES == 218
EEA_max_retries == 3
ECOLEX_Legislation_max_workers == 5
MEE_PRC_num_categories == 15

(***************************************************************************)
(* Text                                                                    *)
(***************************************************************************)
\* the selector matched no node (indexing its result raises IndexError)
Missing == <<"no node">>

\* the texts of 1..n characters over the alphabet A (a text node is never empty)
Texts(A, n) == UNION {[1..k -> A] : k \in 1..n}

AsciiDigits == {"0", "1", "2", "3", "4", "5", "6", "7", "8", "9"}

\* "sup2" stands for a character such as SUPERSCRIPT TWO: str.isdigit() is
\* True for it, int() raises ValueError on it, and re's \d does not match it.
DigitChars == AsciiDigits \cup {"sup2"}

IsSpace(c) == c \in {" ", "\n"}

DigitVal(c) ==
    CASE c = "0" -> 0 [] c = "1" -> 1 [] c = "2" -> 2 [] c = "3" -> 3
      [] c = "4" -> 4 [] c = "5" -> 5 [] c = "6" -> 6 [] c = "7" -> 7
      [] c = "8" -> 8 [] c = "9" -> 9

\* str.isdigit(): non-empty and every character is a digit character
isdigit(s) == Len(s) > 0 /\ \A i \in 1..Len(s) : s[i] \in DigitChars

RECURSIVE DecimalValue(_)
DecimalValue(s) ==
    IF s = <<>> THEN 0
    ELSE 10 * DecimalValue(SubSeq(s, 1, Len(s) - 1)) + DigitVal(s[Len(s)])

\* int(s) raises ValueError (for the texts the code calls it on, those with
\* s.isdigit(): exactly when some character is not a decimal digit)
int_raises(s) == ~(Len(s) > 0 /\ \A i \in 1..Len(s) : s[i] \in AsciiDigits)

\* int(s) when it does not raise
int(s) == DecimalValue(s)

\* s.replace(c, d) for single characters c, d
replace(s, c, d) == [i \in 1..Len(s) |-> IF s[i] = c THEN d ELSE s[i]]

\* s.replace(c, '')
remove(s, c) == SelectSeq(s, LAMBDA x : x # c)

\* s.strip()
strip(s) ==
    LET keep == {i \in 1..Len(s) : ~IsSpace(s[i])}
        lo == CHOOSE i \in keep : \A j \in keep : i <= j
        hi == CHOOSE i \in keep : \A j \in keep : j <= i
    IN IF keep = {} THEN <<>> ELSE SubSeq(s, lo, hi)

FirstIndex(s, c) ==
    LET at == {i \in 1..Len(s) : s[i] = c}
    IN IF at = {} THEN 0 ELSE CHOOSE i \in at : \A j \in at : i <= j

\* s.split(c)[0]
split_first(s, c) ==
    IF FirstIndex(s, c) = 0 THEN s ELSE SubSeq(s, 1, FirstIndex(s, c) - 1)

\* s.split(c, 1)[-1]
split_rest(s, c) ==
    IF FirstIndex(s, c) = 0 THEN s ELSE SubSeq(s, FirstIndex(s, c) + 1, Len(s))

\* re.search(r'(\d{4})', s).group(1), or "" when there is no match
first_four_digits(s) ==
    LET at == {i \in 1..(Len(s) - 3) : \A k \in 0..3 : s[i + k] \in AsciiDigits}
        lo == CHOOSE i \in at : \A j \in at : i <= j
    IN IF at = {} THEN <<>> ELSE SubSeq(s, lo, lo + 3)

\* ' '.join(s.split()): whitespace runs collapsed to one space, ends trimmed
RECURSIVE join_split(_)
join_split(s) ==
    LET t == strip(s)
    IN IF t = <<>> THEN <<>>
       ELSE IF Len(t) >= 2 /\ IsSpace(t[2])
            THEN <<t[1], " ">> \o join_split(SubSeq(t, 3, Len(t)))
            ELSE <<t[1]>> \o join_split(Tail(t))

(***************************************************************************)
(* The store: one header row, then one row per persisted record            *)
(***************************************************************************)
Header == [kind |-> "header", Policy |-> <<"Policy">>, Year |-> <<"Year">>]

Row(P, Y) == [kind |-> "data", Policy |-> P, Year |-> Y]

DataRows(f) == IF f = "absent" THEN <<>> ELSE SelectSeq(f, LAMBDA r : r.kind = "data")

\* with open(output_file, 'a') as e: csv.writer(e).writerow(row)
append_row(f, row) == IF f = "absent" THEN <<row>> ELSE Append(f, row)

(***************************************************************************)
(* Year filter.  Each crawler carries its own copy of the code.            *)
(*   "saved" / "pass"     the record goes on to be written                 *)
(*   "saved_nonnumeric"   the except ValueError branch                     *)
(*   "skipped"            skipped_count += 1                               *)
(***************************************************************************)
\* > instead of >= in the comparison with MIN_YEAR
APEP_year_filter_strict(Y) ==
    IF isdigit(Y) /\ int_raises(Y) THEN "saved_nonnumeric"
    ELSE LET year_int == IF isdigit(Y) THEN int(Y) ELSE 0
         IN IF year_int > MIN_YEAR \/ Y = <<>> THEN "saved" ELSE "skipped"

APEP_year_filter(Y) ==
    IF isdigit(Y) /\ int_raises(Y) THEN "saved_nonnumeric"
    ELSE LET year_int == IF isdigit(Y) THEN int(Y) ELSE 0
         IN IF year_int >= MIN_YEAR \/ Y = <<>> THEN "saved" ELSE "skipped"

CDR_NETS_year_filter(Y) ==
    IF isdigit(Y) /\ int_raises(Y) THEN "saved_nonnumeric"
    ELSE LET year_int == IF isdigit(Y) THEN int(Y) ELSE 0
         IN IF year_int >= MIN_YEAR \/ Y = <<>> THEN "saved" ELSE "skipped"

MEE_PRC_year_filter(Y) ==
    IF isdigit(Y) /\ int_raises(Y) THEN "saved_nonnumeric"
    ELSE LET year_int == IF isdigit(Y) THEN int(Y) ELSE 0
         IN IF year_int < MIN_YEAR /\ Y # <<>> THEN "skipped" ELSE "saved"

IEA_year_filter(Y) ==
    IF isdigit(Y) /\ int_raises(Y) THEN "saved_nonnumeric"
    ELSE LET year_int == IF isdigit(Y) THEN int(Y) ELSE 0
         IN IF year_int < MIN_YEAR /\ Y # <<>> THEN "skipped" ELSE "saved"

Non_Thread_year_filter(Y) ==
    IF isdigit(Y) /\ int_raises(Y) THEN "saved_nonnumeric"
    ELSE LET year_int == IF isdigit(Y) THEN int(Y) ELSE 0
         IN IF year_int < MIN_YEAR /\ Y # <<>> THEN "skipped" ELSE "saved"

Accepting == {"saved", "saved_nonnumeric"}

(***************************************************************************)
(* Field extraction of one item, per crawler                               *)
(***************************************************************************)
\* APEP: h2.page-header, "Country: Policy"
APEP_title(t) ==
    IF t = Missing THEN <<>>
    ELSE IF FirstIndex(t, ":") # 0
         THEN strip(replace(split_rest(t, ":"), "\n", " "))
         ELSE strip(replace(t, "\n", " "))

APEP_year(y) == IF y = Missing THEN <<>> ELSE strip(replace(y, "\n", " "))

\* CDR_NETS: //h1/text()[0], taken as it is
CDR_NETS_title(t) == IF t = Missing THEN <<>> ELSE t

CDR_NETS_year(y) == IF y = Missing THEN <<>> ELSE strip(y)

\* MEE_PRC: three selectors in turn, each stripped; "" when none matches
MEE_PRC_title(t) == IF t = Missing THEN <<>> ELSE strip(t)

\* MEE_PRC: the listing row's date up to its first '-'; without it the first
\* 20\d{2} found in the page text (fallback), or ""
MEE_PRC_year(y, fallback) == IF y = Missing THEN fallback ELSE split_first(y, "-")

\* IEA: li link text, newlines removed, stripped
IEA_title(t) == strip(remove(t, "\n"))

IEA_year(y) == strip(remove(y, "\n"))

\* IEA parse_detail: every string field of the returned item is cleaned
IEA_clean(v) == join_split(replace(replace(v, "\n", " "), "\r", " "))

\* Non_Thread_ECOLEX: //h1/text()[0].strip()
Non_Thread_title(t) == strip(t)

Non_Thread_year(y) == IF y = Missing THEN <<>> ELSE first_four_digits(strip(y))

\* Non_Thread_ECOLEX: the title as written to policy_data
Non_Thread_clean(v) == strip(replace(replace(v, "\n", " "), "\r", " "))

(***************************************************************************)
(* Parts of the state a specification does not use stay idle               *)
(***************************************************************************)
ItemIdle ==
    /\ crawler = "none"
    /\ title_raw = Missing
    /\ year_raw = Missing
    /\ Policy = <<>>
    /\ Year = <<>>
    /\ verdict = "none"
    /\ ipc = "idle"

NoResult == [kind |-> "pending", attempt |-> 0]

FetchIdle ==
    /\ fetcher = "none"
    /\ max_retries = 0
    /\ attempt = 0
    /\ fpc = "idle"
    /\ result = NoResult
    /\ log = <<>>
    /\ error_count = 0

RunIdle ==
    /\ rpc = "off"
    /\ total_pages = 0
    /\ current_page = 0
    /\ consecutive_empty_pages = 0
    /\ items_left = 0
    /\ iterations = 0
    /\ all_empty = TRUE
    /\ appended = 0
    /\ starts = 0
    /\ torn = FALSE
    /\ zero_pages = 0
    /\ last_outcome = "none"
    /\ filtered = 0

EEAIdle ==
    /\ store_before = "absent"
    /\ chunks = <<>>

NoListing == [category |-> 0, page |-> 0, outcome |-> "no fetch yet"]

CatIdle ==
    /\ mpc = "off"
    /\ category_index = 0
    /\ page_num = 0
    /\ entries_left = 0
    /\ last_listing = NoListing
    /\ exhausted = 0
    /\ detail_raised = 0

MergeIdle ==
    /\ mgpc = "off"
    /\ old_data = <<>>
    /\ new_data = <<>>
    /\ merged_data = <<>>
    /\ remerged = <<>>

PagesIdle ==
    /\ gpc = "off"
    /\ first_page = [kind |-> "none", links |-> <<>>]
    /\ total = 0

\* the MIN_YEAR line of the crawler files as the repository has them:
\* MIN_YEAR = 2021; EEA_crawl.py has no such line and there is no CDR_CCUS_crawl.py
shipped_min_year ==
    [name \in {"APEP", "CDR_CCUS", "CDR_NETS", "CRT", "ECOLEX_Legislation", "ECOLEX_Legislation_NonThread",
               "ECOLEX_Treaty", "EEA", "GOV_PRC", "ICAP_ETS", "IEA", "MEE_PRC", "LSE_CP_Download",
               "Climate_Policy_Download"} |-> IF name \in {"CDR_CCUS", "EEA"} THEN 0 ELSE MIN_YEAR]

OrchIdle ==
    /\ opc = "off"
    /\ crawlers_to_run = <<>>
    /\ run_index = 0
    /\ successful_crawlers = 0
    /\ failed_crawlers = 0
    /\ crawler_results = <<>>
    /\ launched = <<>>
    /\ interrupted = FALSE
    /\ summary_printed = FALSE
    /\ report = "none"
    /\ min_year_in_file = shipped_min_year
    /\ ended_by = "none"

CallIdle ==
    /\ caller = "none"
    /\ n_p = 0
    /\ unit = "listing"
    /\ units = 0
    /\ requests_before = 0

StatsIdle ==
    /\ spc = "off"
    /\ websites = 0
    /\ total_old_records = 0
    /\ total_new_records = 0
    /\ total_merged_records = 0
    /\ total_duplicates_removed = 0
    /\ save_failed = FALSE

GovIdle ==
    /\ kpc = "off"
    /\ gov_category = 0
    /\ n_k = 0
    /\ last_full = 0
    /\ server_tail = "empty"
    /\ handled = FALSE

\* no file: downloaded_file is None
NoFile == [name |-> "None", mtime |-> 0, origin |-> "nobody"]

DownIdle ==
    /\ dpc = "off"
    /\ now = 0
    /\ start_time = 0
    /\ download_dir = {}
    /\ downloaded_file = NoFile
    /\ final_file = NoFile

PoolIdle ==
    /\ ppc = "off"
    /\ i_1 = 0
    /\ page_number = 0
    /\ task = <<>>
    /\ valid_results = <<>>
    /\ next_result = 0
    /\ empty_run = 0
    /\ write_failed = 0
    /\ batch_base = 0
    /\ passed = 0
    /\ rejected = 0

(***************************************************************************)
(* Per-item processing: from the fetched detail page to the store.         *)
(* One action per crawler; it runs the whole per-item body on the texts    *)
(* title_raw / year_raw that the page holds.                               *)
(***************************************************************************)
ItemCrawlers == {"APEP", "CDR_NETS", "MEE_PRC", "IEA", "Non_Thread"}

TitleChars(c) == IF c = "APEP" THEN {"a", "\n", ":"} ELSE {"a", "\n"}

YearChars(c) ==
    IF c = "MEE_PRC" THEN {"0", "1", "2", "a", "sup2", "-"}
    ELSE {"0", "1", "2", "a", "sup2"}

\* texts the fallback of MEE_PRC's year extraction can find (20\d{2}), or none
MEE_PRC_fallback_years == {<<>>, <<"2", "0", "2", "0">>, <<"2", "0", "2", "1">>}

\* the effect of one item on the store and the counters
ItemOutcome(P, Y, v, row) ==
    /\ Policy' = P
    /\ Year' = Y
    /\ verdict' = v
    /\ ipc' = "done"
    /\ store' = IF v \in Accepting THEN append_row(store, row) ELSE store
    /\ saved_count' = IF v \in Accepting THEN saved_count + 1 ELSE saved_count
    /\ skipped_count' = IF v = "skipped" THEN skipped_count + 1 ELSE skipped_count
    /\ UNCHANGED <<crawler, title_raw, year_raw>>
    /\ UNCHANGED <<fetchVars, runVars, eeaVars, poolVars, catVars, mergeVars, pagesVars, orchVars, callVars, statsVars, govVars, downVars>>

APEP_item ==
    /\ ipc = "item"
    /\ crawler = "APEP"
    /\ LET P == APEP_title(title_raw)
           Y == APEP_year(year_raw)
       IN IF P = <<>>
          THEN ItemOutcome(P, <<>>, "no_title", Row(P, <<>>))
          ELSE ItemOutcome(P, Y, APEP_year_filter(Y), Row(P, Y))

CDR_NETS_item ==
    /\ ipc = "item"
    /\ crawler = "CDR_NETS"
    /\ LET P == CDR_NETS_title(title_raw)
           Y == CDR_NETS_year(year_raw)
       IN IF P = <<>>
          THEN ItemOutcome(P, <<>>, "no_title", Row(P, <<>>))
          ELSE ItemOutcome(P, Y, CDR_NETS_year_filter(Y), Row(P, Y))

MEE_PRC_item ==
    /\ ipc = "item"
    /\ crawler = "MEE_PRC"
    /\ \E fallback \in MEE_PRC_fallback_years :
         LET P == MEE_PRC_title(title_raw)
             Y == MEE_PRC_year(year_raw, fallback)
             v == MEE_PRC_year_filter(Y)
         IN IF v = "skipped"
            THEN ItemOutcome(P, Y, "skipped", Row(P, Y))
            ELSE IF strip(P) # <<>>
                 THEN ItemOutcome(P, Y, v, Row(P, Y))
                 ELSE ItemOutcome(P, Y, "no_title", Row(P, Y))

IEA_item ==
    /\ ipc = "item"
    /\ crawler = "IEA"
    /\ \E fetched \in BOOLEAN, detail_ok \in BOOLEAN :
         IF title_raw = Missing \/ year_raw = Missing
         THEN ItemOutcome(<<>>, <<>>, "error", Row(<<>>, <<>>))
         ELSE LET P == IEA_title(title_raw)
                  Y == IEA_year(year_raw)
                  v == IEA_year_filter(Y)
              IN IF v = "skipped"
                 THEN ItemOutcome(P, Y, "skipped", Row(P, Y))
                 ELSE IF ~fetched
                      THEN ItemOutcome(P, Y, "fetch_failed", Row(P, Y))
                      ELSE IF detail_ok
                           THEN ItemOutcome(P, Y, v, Row(IEA_clean(P), IEA_clean(Y)))
                           ELSE ItemOutcome(P, Y, v, Row(P, Y))

Non_Thread_item ==
    /\ ipc = "item"
    /\ crawler = "Non_Thread"
    /\ IF title_raw = Missing
       THEN ItemOutcome(<<>>, <<>>, "no_title", Row(<<>>, <<>>))
       ELSE LET P == Non_Thread_title(title_raw)
                Y == Non_Thread_year(year_raw)
                v == Non_Thread_year_filter(Y)
            IN ItemOutcome(P, Y, v, Row(Non_Thread_clean(P), Y))

InitItem ==
    /\ crawler \in ItemCrawlers
    /\ title_raw \in {Missing} \cup Texts(TitleChars(crawler), MaxTitleLen)
    /\ year_raw \in {Missing} \cup Texts(YearChars(crawler), MaxYearLen)
    /\ Policy = <<>>
    /\ Year = <<>>
    /\ verdict = "none"
    /\ ipc = "item"
    /\ store = <<Header>>
    /\ saved_count = 0
    /\ skipped_count = 0
    /\ FetchIdle
    /\ RunIdle
    /\ EEAIdle
    /\ PoolIdle
    /\ CatIdle
    /\ MergeIdle
    /\ PagesIdle
    /\ OrchIdle
    /\ CallIdle
    /\ StatsIdle
    /\ GovIdle
    /\ DownIdle

NextItem ==
    \/ APEP_item
    \/ CDR_NETS_item
    \/ MEE_PRC_item
    \/ IEA_item
    \/ Non_Thread_item

SpecItem == InitItem /\ [][NextItem]_vars

(***************************************************************************)
(* Properties of the per-item code (SpecItem)                              *)
(***************************************************************************)
\* the text is made only of decimal digits
IsDecimal(Y) == Len(Y) > 0 /\ \A i \in 1..Len(Y) : Y[i] \in AsciiDigits

\* the item had a title (and its detail page) and was decided by the year filter
Filtered == ipc = "done" /\ verdict \in {"saved", "saved_nonnumeric", "skipped"}

\* exactly one data row was appended, carrying the item's year
RowAppended ==
    /\ Len(store) = 2
    /\ store[1] = Header
    /\ store[2].kind = "data"
    /\ saved_count = 1

C2_NonNumericYearAccepted ==
    (Filtered /\ Year # <<>> /\ ~IsDecimal(Year)) =>
        (verdict \in Accepting /\ RowAppended)

\* C3 (as claimed): no data row of the store has an empty Policy.
C3_NoRowWithEmptyTitle ==
    \A i \in 1..Len(store) : store[i].kind = "data" => store[i].Policy # <<>>

\* C22: a failure extracting one field sets only that field to the empty
\* string; the fields already extracted are kept and the record is still
\* produced.  For the year field of APEP and IEA: when the year node is
\* missing and the record has a title (and its detail page), Year is empty,
\* Policy is the extracted title and the row is appended.
C22_MissingYearKeepsRecord ==
    (/\ ipc = "done"
     /\ crawler \in {"APEP", "IEA"}
     /\ year_raw = Missing
     /\ title_raw # Missing
     /\ verdict # "fetch_failed"
     /\ (IF crawler = "APEP" THEN APEP_title(title_raw) ELSE IEA_title(title_raw)) # <<>>)
    =>
        /\ Year = <<>>
        /\ Policy = (IF crawler = "APEP" THEN APEP_title(title_raw) ELSE IEA_title(title_raw))
        /\ verdict \in Accepting
        /\ RowAppended

\* a field value as the data model has it: no newline in it, nothing to trim
normalized(v) == strip(v) = v /\ \A k \in DOMAIN v : v[k] # "\n"

\* C32: no field value of a row in the store contains a newline character or
\* has leading or trailing whitespace.
C32_StoredFieldsNormalized ==
    store # "absent" =>
        \A k \in DOMAIN store :
            store[k].kind = "data" => (normalized(store[k].Policy) /\ normalized(store[k].Year))

(***************************************************************************)
(* The fetchers.  get_page of APEP (CDR_NETS, CRT, ECOLEX_*, GOV_PRC and   *)
(* ICAP_ETS carry the same lines), get_page of MEE_PRC and of Non_Thread,  *)
(* and PoliciesSpider.parse of IEA.  One action is one pass of the retry   *)
(* loop: the request, and the sleep or return that follows it.             *)
(***************************************************************************)
Fetchers == {"APEP", "IEA", "MEE_PRC", "Non_Thread"}

\* what one pass of the loop can meet:
\*   "ok"              a response with a 2xx status
\*   "http_error"      a response with a 4xx/5xx status
\*   "ReadTimeout", "ConnectTimeout", "ConnectionError"   raised by requests.get
\*   "ua_error"        UserAgent() raises before any request is made
Outcomes ==
    {"ok", "http_error", "ReadTimeout", "ConnectTimeout", "ConnectionError", "ua_error"}

\* random.uniform(1, 3), in whole seconds
PoliteDelays == 1..3

Req(k, o) == [ev |-> "request", attempt |-> k, what |-> o, secs |-> 0]
UaError(k) == [ev |-> "ua_error", attempt |-> k, what |-> "ua_error", secs |-> 0]
Sleep(k, kind, n) == [ev |-> "sleep", attempt |-> k, what |-> kind, secs |-> n]

Body(k) == [kind |-> "body", attempt |-> k]
None == [kind |-> "None", attempt |-> 0]
Raised == [kind |-> "raised", attempt |-> 0]

\* wait before the next attempt; a is the 0-based loop variable
APEP_backoff_flat(a, o) == IF o = "ReadTimeout" THEN 5 ELSE 2

APEP_backoff(a, o) == IF o = "ReadTimeout" THEN (a + 1) * 5 ELSE (a + 1) * 2

IEA_backoff(a, o) == IF o = "ReadTimeout" THEN (a + 1) * 5 ELSE (a + 1) * 2

MEE_PRC_backoff_timeout5(a, o) ==
    IF o = "ReadTimeout" THEN (a + 1) * 5 ELSE MEE_PRC_RETRY_DELAY * (a + 1)

MEE_PRC_backoff(a, o) == MEE_PRC_RETRY_DELAY * (a + 1)

Non_Thread_backoff(a, o) == Non_Thread_RETRY_DELAY * (a + 1)

\* if attempt < max_retries - 1: sleep and go round again
APEP_retry_again_off_by_one(a, mr) == a < mr

APEP_retry_again(a, mr) == a < mr - 1

IEA_retry_again(a, mr) == a < mr - 1

FetchFrame == UNCHANGED <<itemVars, storeVars, runVars, eeaVars, poolVars, catVars, mergeVars, pagesVars, orchVars, callVars, statsVars, govVars, downVars>>

APEP_get_page_attempt ==
    /\ fpc = "running"
    /\ fetcher = "APEP"
    /\ attempt < max_retries
    /\ \E o \in Outcomes, d \in PoliteDelays :
         LET k == attempt + 1
         IN IF o \in {"ok", "http_error"}
            THEN /\ log' = log \o <<Req(k, o), Sleep(k, "polite", d)>>
                 /\ result' = Body(k)
                 /\ fpc' = "returned"
                 /\ UNCHANGED attempt
            ELSE IF o = "ua_error"
            THEN /\ log' = Append(log, UaError(k))
                 /\ result' = Raised
                 /\ fpc' = "raised"
                 /\ UNCHANGED attempt
            ELSE IF APEP_retry_again(attempt, max_retries)
            THEN /\ log' = log \o <<Req(k, o), Sleep(k, "backoff", APEP_backoff(attempt, o))>>
                 /\ attempt' = attempt + 1
                 /\ UNCHANGED <<result, fpc>>
            ELSE /\ log' = Append(log, Req(k, o))
                 /\ result' = None
                 /\ fpc' = "returned"
                 /\ UNCHANGED attempt
    /\ UNCHANGED <<fetcher, max_retries, error_count>>
    /\ FetchFrame

\* the loop ran out of passes: the return None after it
APEP_get_page_exhausted ==
    /\ fpc = "running"
    /\ fetcher = "APEP"
    /\ attempt >= max_retries
    /\ result' = None
    /\ fpc' = "returned"
    /\ UNCHANGED <<fetcher, max_retries, attempt, log, error_count>>
    /\ FetchFrame

IEA_parse_attempt ==
    /\ fpc = "running"
    /\ fetcher = "IEA"
    /\ attempt < max_retries
    /\ \E o \in Outcomes \ {"ua_error"}, d \in PoliteDelays :
         LET k == attempt + 1
             sent == log \o <<Sleep(k, "polite", d), Req(k, o)>>
         IN IF o = "ok"
            THEN /\ log' = sent
                 /\ result' = Body(k)
                 /\ fpc' = "returned"
                 /\ UNCHANGED attempt
            ELSE IF IEA_retry_again(attempt, max_retries)
            THEN /\ log' = Append(sent, Sleep(k, "backoff", IEA_backoff(attempt, o)))
                 /\ attempt' = attempt + 1
                 /\ UNCHANGED <<result, fpc>>
            ELSE /\ log' = sent
                 /\ result' = None
                 /\ fpc' = "returned"
                 /\ UNCHANGED attempt
    /\ UNCHANGED <<fetcher, max_retries, error_count>>
    /\ FetchFrame

IEA_parse_exhausted ==
    /\ fpc = "running"
    /\ fetcher = "IEA"
    /\ attempt >= max_retries
    /\ result' = None
    /\ fpc' = "returned"
    /\ UNCHANGED <<fetcher, max_retries, attempt, log, error_count>>
    /\ FetchFrame

MEE_PRC_get_page_attempt ==
    /\ fpc = "running"
    /\ fetcher = "MEE_PRC"
    /\ attempt < MEE_PRC_MAX_RETRIES
    /\ \E o \in Outcomes :
         LET k == attempt + 1
             tried == IF o = "ua_error" THEN UaError(k) ELSE Req(k, o)
         IN IF o = "ok"
            THEN /\ log' = Append(log, tried)
                 /\ result' = Body(k)
                 /\ fpc' = "returned"
                 /\ UNCHANGED <<attempt, error_count>>
            ELSE IF attempt < MEE_PRC_MAX_RETRIES - 1
            THEN /\ log' = log \o <<tried, Sleep(k, "backoff", MEE_PRC_backoff(attempt, o))>>
                 /\ attempt' = attempt + 1
                 /\ UNCHANGED <<result, fpc, error_count>>
            ELSE /\ log' = Append(log, tried)
                 /\ attempt' = attempt + 1
                 /\ error_count' = error_count + 1
                 /\ result' = None
                 /\ fpc' = "returned"
    /\ UNCHANGED <<fetcher, max_retries>>
    /\ FetchFrame

Non_Thread_get_page_attempt ==
    /\ fpc = "running"
    /\ fetcher = "Non_Thread"
    /\ attempt < Non_Thread_MAX_RETRIES
    /\ \E o \in Outcomes :
         LET k == attempt + 1
             tried == IF o = "ua_error" THEN UaError(k) ELSE Req(k, o)
         IN IF o = "ok"
            THEN /\ log' = Append(log, tried)
                 /\ result' = Body(k)
                 /\ fpc' = "returned"
                 /\ UNCHANGED <<attempt, error_count>>
            ELSE IF attempt < Non_Thread_MAX_RETRIES - 1
            THEN /\ log' = log \o <<tried, Sleep(k, "backoff", Non_Thread_backoff(attempt, o))>>
                 /\ attempt' = attempt + 1
                 /\ UNCHANGED <<result, fpc, error_count>>
            ELSE /\ log' = Append(log, tried)
                 /\ attempt' = attempt + 1
                 /\ error_count' = error_count + 1
                 /\ result' = None
                 /\ fpc' = "returned"
    /\ UNCHANGED <<fetcher, max_retries>>
    /\ FetchFrame

\* the max_retries a call is made with
MaxRetriesOf(f) ==
    CASE f = "MEE_PRC" -> {MEE_PRC_MAX_RETRIES}
      [] f = "Non_Thread" -> {Non_Thread_MAX_RETRIES}
      [] OTHER -> 0..MaxRetriesArg

InitFetch ==
    /\ fetcher \in Fetchers
    /\ max_retries \in MaxRetriesOf(fetcher)
    /\ attempt = 0
    /\ fpc = "running"
    /\ result = NoResult
    /\ log = <<>>
    /\ error_count = 0
    /\ ItemIdle
    /\ store = "absent"
    /\ saved_count = 0
    /\ skipped_count = 0
    /\ RunIdle
    /\ EEAIdle
    /\ PoolIdle
    /\ CatIdle
    /\ MergeIdle
    /\ PagesIdle
    /\ OrchIdle
    /\ CallIdle
    /\ StatsIdle
    /\ GovIdle
    /\ DownIdle

NextFetch ==
    \/ APEP_get_page_attempt
    \/ APEP_get_page_exhausted
    \/ IEA_parse_attempt
    \/ IEA_parse_exhausted
    \/ MEE_PRC_get_page_attempt
    \/ Non_Thread_get_page_attempt

SpecFetch == InitFetch /\ [][NextFetch]_vars

(***************************************************************************)
(* Properties of the fetchers (SpecFetch)                                  *)
(***************************************************************************)
Requests == SelectSeq(log, LAMBDA e : e.ev = "request")

BackoffWaits == SelectSeq(log, LAMBDA e : e.ev = "sleep" /\ e.what = "backoff")

NetworkErrors == {"ReadTimeout", "ConnectTimeout", "ConnectionError"}

\* the request raised a network-class error (requests.exceptions.RequestException)
RaisedNetworkError(f, e) ==
    e.what \in NetworkErrors \/ (f # "APEP" /\ e.what = "http_error")

\* C7: get_page(url, max_retries) (and IEA's parse, which has the same
\* signature) issues at most max_retries requests; what it returns is the
\* body of the first attempt that did not raise; it returns None exactly when
\* all max_retries attempts raised a network error; and no backoff wait
\* follows the final failed attempt.
C7_GetPageRetryContract ==
    fetcher \in {"APEP", "IEA"} =>
        /\ Len(Requests) <= max_retries
        /\ result.kind = "body" =>
              /\ Requests[Len(Requests)].attempt = result.attempt
              /\ ~RaisedNetworkError(fetcher, Requests[Len(Requests)])
              /\ \A i \in 1..(Len(Requests) - 1) : RaisedNetworkError(fetcher, Requests[i])
        /\ fpc = "returned" =>
              ((result = None) <=>
                  /\ Len(Requests) = max_retries
                  /\ \A i \in 1..Len(Requests) : RaisedNetworkError(fetcher, Requests[i]))
        /\ \A i \in 1..Len(log) :
              (log[i].ev = "sleep" /\ log[i].what = "backoff") => log[i].attempt < max_retries

\* C36: APEP's get_page never returns the body of a response with an HTTP
\* error status: a body it returns is the body of a response with a 2xx status.
C36_ErrorStatusNeverReturned ==
    (fetcher = "APEP" /\ fpc = "returned" /\ result.kind = "body") =>
        Requests[Len(Requests)].what = "ok"

\* C7 witness: three attempts of APEP's get_page all failed and it returned None
C7_Witness ==
    /\ fetcher = "APEP"
    /\ max_retries = 3
    /\ fpc = "returned"
    /\ result = None
    /\ Len(Requests) = 3
    /\ Len(BackoffWaits) = 2

\* the run of the scenario of C8: two read timeouts, then a success
TimeoutTimeoutSuccess ==
    /\ fetcher = "APEP"
    /\ max_retries = 3
    /\ fpc = "returned"
    /\ Len(Requests) = 3
    /\ Requests[1].what = "ReadTimeout"
    /\ Requests[2].what = "ReadTimeout"
    /\ Requests[3].what = "ok"

\* C8: get_page with max_retries = 3 that meets a read timeout on attempts 1
\* and 2 and a success on attempt 3 returns the third body, and its backoff
\* waits are exactly 5 s then 10 s, each right after the failed attempt and
\* before the next one.
C8_TwoTimeoutsThenSuccess ==
    TimeoutTimeoutSuccess =>
        /\ result = Body(3)
        /\ Len(BackoffWaits) = 2
        /\ BackoffWaits[1].secs = 5
        /\ BackoffWaits[2].secs = 10
        /\ Len(log) = 6
        /\ log[1].ev = "request" /\ log[2] = Sleep(1, "backoff", 5)
        /\ log[3].ev = "request" /\ log[4] = Sleep(2, "backoff", 10)
        /\ log[5].ev = "request" /\ log[6].what = "polite"

\* C8 witness: the scenario has run
C8_Witness == TimeoutTimeoutSuccess /\ result.kind = "body"

\* the wait that follows the failed request log[i], if the loop goes on
WaitAfter(i) == log[i + 1]

\* a request that raised a network-class error and was not the last allowed
RetriedFailure(i) ==
    /\ log[i].ev = "request"
    /\ RaisedNetworkError(fetcher, log[i])
    /\ log[i].attempt < max_retries

FirstPages ==
    {[kind |-> k, last |-> 0] : k \in {"fetch_failed", "no_pager"}}
        \cup {[kind |-> "pager", last |-> n] : n \in 0..MaxLastPage}

\* get_total_pages(): page number of the pager's last link plus one, else the default
get_total_pages(first) ==
    IF first.kind = "pager" THEN first.last + 1 ELSE DEFAULT_TOTAL_PAGES

APEP_header_always(f) == TRUE

\* if not os.path.exists(output_file)
APEP_header_needed(f) == f = "absent"

APEP_reached_end_late(c) == c > max_empty_pages

\* if consecutive_empty_pages >= max_empty_pages: break
APEP_reached_end(c) == c >= max_empty_pages

ListingOutcomes == {"raised", "none", "parse_error", "zero", "items"}

counter_kept(c) == c

\* else: consecutive_empty_pages = 0  # Reset counter when we find policies
counter_reset(c) == 0

same_page(p) == p

\* current_page += 1
next_page(p) == p + 1

RunTitles == {Missing, <<"a">>, <<"\n">>}

RunYears == {Missing, <<"2", "0", "2", "0">>, <<"2", "0", "2", "1">>}

\* python apep_crawl.py: the script starts; open(output_file, 'w') creates the file
APEP_start ==
    /\ rpc = "off"
    /\ starts < MaxStarts
    /\ starts' = starts + 1
    /\ IF APEP_header_needed(store)
         THEN store' = <<>> /\ rpc' = "header"
         ELSE store' = store /\ rpc' = "estimate"
    /\ UNCHANGED <<zero_pages, last_outcome>>
    /\ UNCHANGED filtered
    /\ UNCHANGED <<total_pages, current_page, consecutive_empty_pages, items_left,
                   iterations, all_empty, appended, torn>>
    /\ UNCHANGED <<saved_count, skipped_count, itemVars, fetchVars, eeaVars, poolVars, catVars, mergeVars, pagesVars, orchVars, callVars, statsVars, govVars, downVars>>

\* csv_writer.writerow([...header...]) and the end of the with block
APEP_write_header ==
    /\ rpc = "header"
    /\ store' = Append(store, Header)
    /\ rpc' = "estimate"
    /\ UNCHANGED <<zero_pages, last_outcome>>
    /\ UNCHANGED filtered
    /\ UNCHANGED <<total_pages, current_page, consecutive_empty_pages, items_left,
                   iterations, all_empty, appended, starts, torn>>
    /\ UNCHANGED <<saved_count, skipped_count, itemVars, fetchVars, eeaVars, poolVars, catVars, mergeVars, pagesVars, orchVars, callVars, statsVars, govVars, downVars>>

\* start_page = 0; total_pages = get_total_pages(); the counters
APEP_estimate ==
    /\ rpc = "estimate"
    /\ \E first \in FirstPages : total_pages' = get_total_pages(first)
    /\ current_page' = 0
    /\ consecutive_empty_pages' = 0
    /\ zero_pages' = 0
    /\ last_outcome' = "none"
    /\ filtered' = 0
    /\ saved_count' = 0
    /\ skipped_count' = 0
    /\ rpc' = "loop"
    /\ UNCHANGED <<store, items_left, iterations, all_empty, appended, starts, torn>>
    /\ UNCHANGED <<itemVars, fetchVars, eeaVars, poolVars, catVars, mergeVars, pagesVars, orchVars, callVars, statsVars, govVars, downVars>>

\* one pass of `while current_page < total_pages` up to the inner loop
APEP_listing_page ==
    /\ rpc = "loop"
    /\ current_page < total_pages
    /\ iterations' = iterations + 1
    /\ \E o \in ListingOutcomes, n \in 1..MaxItemsPerPage :
          /\ all_empty' = (all_empty /\ o = "zero")
          /\ last_outcome' = o
          /\ CASE o = "raised" ->         \* get_page raises outside any try
                    /\ rpc' = "crashed"
                    /\ UNCHANGED <<current_page, consecutive_empty_pages, items_left>>
                    /\ UNCHANGED zero_pages
               [] o \in {"none", "parse_error"} ->
                    /\ current_page' = next_page(current_page)
                    /\ UNCHANGED <<rpc, consecutive_empty_pages, items_left, zero_pages>>
               [] o = "zero" ->
                    /\ consecutive_empty_pages' = consecutive_empty_pages + 1
                    /\ zero_pages' = zero_pages + 1
                    /\ IF APEP_reached_end(consecutive_empty_pages')
                         THEN rpc' = "done" /\ current_page' = current_page
                         ELSE rpc' = rpc /\ current_page' = next_page(current_page)
                    /\ UNCHANGED items_left
               [] o = "items" ->
                    /\ consecutive_empty_pages' = counter_reset(consecutive_empty_pages)
                    /\ zero_pages' = 0
                    /\ items_left' = n
                    /\ rpc' = "items"
                    /\ UNCHANGED current_page
    /\ UNCHANGED <<total_pages, appended, starts, torn, filtered>>
    /\ UNCHANGED <<storeVars, itemVars, fetchVars, eeaVars, poolVars, catVars, mergeVars, pagesVars, orchVars, callVars, statsVars, govVars, downVars>>

\* the loop condition fails: "Crawling completed"
APEP_loop_exit ==
    /\ rpc = "loop"
    /\ ~(current_page < total_pages)
    /\ rpc' = "done"
    /\ UNCHANGED <<zero_pages, last_outcome>>
    /\ UNCHANGED filtered
    /\ UNCHANGED <<total_pages, current_page, consecutive_empty_pages, items_left,
                   iterations, all_empty, appended, starts, torn>>
    /\ UNCHANGED <<storeVars, itemVars, fetchVars, eeaVars, poolVars, catVars, mergeVars, pagesVars, orchVars, callVars, statsVars, govVars, downVars>>

\* one pass of `for policy_index, single_url2_ache in enumerate(url2_list)`,
\* up to and including the writerow of an accepted item
APEP_policy ==
    /\ rpc = "items"
    /\ \E fetched \in BOOLEAN, t \in RunTitles, y \in RunYears :
          LET P == APEP_title(t)
              Y == APEP_year(y)
              v == APEP_year_filter(Y)
          IN  IF ~fetched \/ P = <<>>
                THEN /\ UNCHANGED <<store, saved_count, skipped_count, appended, filtered>>
                     /\ items_left' = items_left - 1
                     /\ IF items_left' = 0
                          THEN rpc' = "loop" /\ current_page' = next_page(current_page)
                          ELSE UNCHANGED <<rpc, current_page>>
                ELSE IF v \in Accepting
                  THEN /\ appended < MaxAppends
                       /\ store' = append_row(store, Row(P, Y))
                       /\ appended' = appended + 1
                       /\ filtered' = filtered + 1
                       /\ rpc' = "counting"
                       /\ UNCHANGED <<saved_count, skipped_count, items_left, current_page>>
                  ELSE /\ skipped_count < MaxSkipped
                       /\ skipped_count' = skipped_count + 1
                       /\ filtered' = filtered + 1
                       /\ UNCHANGED <<store, saved_count, appended>>
                       /\ items_left' = items_left - 1
                       /\ IF items_left' = 0
                            THEN rpc' = "loop" /\ current_page' = next_page(current_page)
                            ELSE UNCHANGED <<rpc, current_page>>
    /\ UNCHANGED <<total_pages, consecutive_empty_pages, iterations, all_empty, starts, torn>>
    /\ UNCHANGED <<zero_pages, last_outcome>>
    /\ UNCHANGED <<itemVars, fetchVars, eeaVars, poolVars, catVars, mergeVars, pagesVars, orchVars, callVars, statsVars, govVars, downVars>>

counter_forgotten(c) == c

\* saved_count += 1
counter_incremented(c) == c + 1

\* saved_count += 1 after the writerow, and the end of the pass
APEP_count ==
    /\ rpc = "counting"
    /\ saved_count' = counter_incremented(saved_count)
    /\ items_left' = items_left - 1
    /\ IF items_left' = 0
         THEN rpc' = "loop" /\ current_page' = next_page(current_page)
         ELSE rpc' = "items" /\ UNCHANGED current_page
    /\ UNCHANGED <<store, skipped_count, total_pages, consecutive_empty_pages, iterations,
                   all_empty, appended, starts, torn, zero_pages, last_outcome, filtered>>
    /\ UNCHANGED <<itemVars, fetchVars, eeaVars, poolVars, catVars, mergeVars, pagesVars, orchVars, callVars, statsVars, govVars, downVars>>

\* the process ends, or is killed wherever it is; only the file survives
APEP_exit ==
    /\ rpc # "off"
    /\ rpc' = "off"
    /\ torn' = (torn \/ rpc = "header")
    /\ total_pages' = 0
    /\ current_page' = 0
    /\ consecutive_empty_pages' = 0
    /\ zero_pages' = 0
    /\ last_outcome' = "none"
    /\ filtered' = 0
    /\ items_left' = 0
    /\ iterations' = 0
    /\ all_empty' = TRUE
    /\ saved_count' = 0
    /\ skipped_count' = 0
    /\ UNCHANGED <<store, appended, starts>>
    /\ UNCHANGED <<itemVars, fetchVars, eeaVars, poolVars, catVars, mergeVars, pagesVars, orchVars, callVars, statsVars, govVars, downVars>>

InitRun ==
    /\ store = "absent"
    /\ saved_count = 0
    /\ skipped_count = 0
    /\ RunIdle
    /\ EEAIdle
    /\ PoolIdle
    /\ CatIdle
    /\ ItemIdle
    /\ FetchIdle
    /\ MergeIdle
    /\ PagesIdle
    /\ OrchIdle
    /\ CallIdle
    /\ StatsIdle
    /\ GovIdle
    /\ DownIdle

NextRun ==
    \/ APEP_start
    \/ APEP_write_header
    \/ APEP_estimate
    \/ APEP_listing_page
    \/ APEP_loop_exit
    \/ APEP_policy
    \/ APEP_count
    \/ APEP_exit

SpecRun == InitRun /\ [][NextRun]_vars

Min(a, b) == IF a < b THEN a ELSE b

\* C10 (as stated): when every listing page has zero items, the main loop
\* has made exactly max_empty_pages passes when it ends.
C10_AllEmptyStopsAfterThree ==
    (rpc = "done" /\ all_empty) => iterations = max_empty_pages

\* C10 (amended): when every listing page has zero items, the main loop
\* ends after exactly min(max_empty_pages, total_pages) passes; when the
\* estimate is at least max_empty_pages that is exactly max_empty_pages
\* passes, ended by the break and not by current_page reaching total_pages.
C10_AllEmptyStopsAfterMin ==
    (rpc = "done" /\ all_empty) =>
        /\ iterations = Min(max_empty_pages, total_pages)
        /\ total_pages >= max_empty_pages =>
              /\ iterations = max_empty_pages
              /\ consecutive_empty_pages = max_empty_pages
              /\ current_page < total_pages

\* three empty pages end a run whose estimate is the default 218 pages
C10_Witness ==
    /\ rpc = "done"
    /\ all_empty
    /\ total_pages = DEFAULT_TOTAL_PAGES
    /\ iterations = max_empty_pages
    /\ current_page = max_empty_pages - 1

\* C26: consecutive_empty_pages is the number of listing pages with zero
\* items seen since the last listing page that had items (or since the start
\* of the run), and it is always within 0..max_empty_pages.
C26_CounterCountsZeroItemPages ==
    /\ consecutive_empty_pages = zero_pages
    /\ consecutive_empty_pages \in 0..max_empty_pages

\* a page with items was processed in this run and one zero-item page followed
C26_Witness ==
    /\ rpc = "loop"
    /\ last_outcome = "zero"
    /\ saved_count > 0
    /\ zero_pages = 1
    /\ consecutive_empty_pages = 1

\* C34: running the script again on the same source with the store already
\* populated does not append a record the store already holds: when the first
\* run left one row and the second run appended one, the two rows differ.
C34_RerunAppendsNoRowAgain ==
    (/\ store # "absent"
     /\ ~torn
     /\ starts = 2
     /\ saved_count = 1
     /\ appended = 2
     /\ Len(store) = 3)
    => store[2] # store[3]

\* C27: a listing page whose parsing failed has been counted as an empty page:
\* right after it the consecutive-empty-page counter is at least one.
C27_ParseFailureCountsAsEmpty ==
    (rpc = "loop" /\ last_outcome = "parse_error") => consecutive_empty_pages >= 1

\* One run of the script from the point where its output file has its header
\* row, left to run: no kill, no second start.  Each pass of the loops is a
\* finite piece of code, so a pass that can be taken is taken.
InitLoop ==
    /\ store = <<Header>>
    /\ saved_count = 0
    /\ skipped_count = 0
    /\ rpc = "estimate"
    /\ total_pages = 0
    /\ current_page = 0
    /\ consecutive_empty_pages = 0
    /\ items_left = 0
    /\ iterations = 0
    /\ all_empty = TRUE
    /\ appended = 0
    /\ starts = 1
    /\ torn = FALSE
    /\ zero_pages = 0
    /\ last_outcome = "none"
    /\ filtered = 0
    /\ EEAIdle
    /\ PoolIdle
    /\ CatIdle
    /\ ItemIdle
    /\ FetchIdle
    /\ MergeIdle
    /\ PagesIdle
    /\ OrchIdle
    /\ CallIdle
    /\ StatsIdle
    /\ GovIdle
    /\ DownIdle

NextLoop ==
    \/ APEP_estimate
    \/ APEP_listing_page
    \/ APEP_loop_exit
    \/ APEP_policy
    \/ APEP_count

SpecLoop == InitLoop /\ [][NextLoop]_vars /\ WF_vars(NextLoop)

PageAdvances ==
    /\ rpc = "loop" => iterations = current_page
    /\ rpc \in {"items", "counting"} => iterations = current_page + 1
    /\ rpc \in {"loop", "items", "counting", "done"} => iterations <= total_pages
    /\ rpc = "done" =>
          \/ current_page >= total_pages /\ iterations = current_page
          \/ /\ consecutive_empty_pages >= max_empty_pages
             /\ current_page < total_pages
             /\ iterations = current_page + 1

EEARows == {Row(<<"a">>, <<>>), Row(<<"b">>, <<>>)}

\* what the server can send: nothing, or a header and some rows
Bodies ==
    {<<>>} \cup {<<Header>> \o rows : rows \in UNION {[1..n -> EEARows] : n \in 0..MaxBodyRows}}

EEA_Outcomes ==
    {"ok", "http_error", "ReadTimeout", "ConnectTimeout", "ConnectionError", "other"}

EEA_True == [kind |-> "True", attempt |-> 0]
EEA_False == [kind |-> "False", attempt |-> 0]

StreamError(k, o) == [ev |-> "stream_error", attempt |-> k, what |-> o, secs |-> 0]

\* wait before the next attempt; a is the 0-based loop variable
EEA_backoff(a, o) ==
    IF o \in {"ReadTimeout", "ConnectTimeout"} THEN (a + 1) * 10
    ELSE IF o \in {"http_error", "ConnectionError"} THEN (a + 1) * 5
    ELSE 5

\* open(output_path, mode='wb')
EEA_open_wb(f) == <<>>

\* an except clause of download_source, and `return False` after the last one
EEA_failed(ev, o) ==
    /\ log' = log \o <<ev>> \o
                (IF attempt < max_retries - 1
                   THEN <<Sleep(attempt + 1, "backoff", EEA_backoff(attempt, o))>>
                   ELSE <<>>)
    /\ attempt' = attempt + 1
    /\ IF attempt' < max_retries
         THEN fpc' = "running" /\ UNCHANGED result
         ELSE fpc' = "returned" /\ result' = EEA_False
    /\ chunks' = <<>>

EEAFrame ==
    /\ UNCHANGED <<fetcher, max_retries, error_count, store_before>>
    /\ UNCHANGED <<saved_count, skipped_count, itemVars, runVars, poolVars, catVars, mergeVars, pagesVars, orchVars, callVars, statsVars, govVars, downVars>>

\* requests.get, raise_for_status, and the open of the output file
EEA_request ==
    /\ fpc = "running"
    /\ fetcher = "EEA"
    /\ attempt < max_retries
    /\ \E o \in EEA_Outcomes, body \in Bodies :
         IF o = "ok"
           THEN /\ log' = Append(log, Req(attempt + 1, o))
                /\ store' = EEA_open_wb(store)
                /\ chunks' = body
                /\ fpc' = "writing"
                /\ UNCHANGED <<attempt, result>>
           ELSE /\ EEA_failed(Req(attempt + 1, o), o)
                /\ UNCHANGED store
    /\ EEAFrame

\* f.write(chunk)
EEA_write_chunk ==
    /\ fpc = "writing"
    /\ chunks # <<>>
    /\ store' = Append(store, Head(chunks))
    /\ chunks' = Tail(chunks)
    /\ UNCHANGED <<attempt, fpc, result, log>>
    /\ EEAFrame

\* response.iter_content raises in mid-download; the with block closes the file
EEA_stream_error ==
    /\ fpc = "writing"
    /\ chunks # <<>>
    /\ \E o \in {"ReadTimeout", "ConnectionError"} :
         EEA_failed(StreamError(attempt + 1, o), o)
    /\ UNCHANGED store
    /\ EEAFrame

\* end of the body: the file verification and the return
EEA_verify ==
    /\ fpc = "writing"
    /\ chunks = <<>>
    /\ result' = IF Len(store) > 0 THEN EEA_True ELSE EEA_False
    /\ fpc' = "returned"
    /\ UNCHANGED <<attempt, log, chunks, store>>
    /\ EEAFrame

InitEEA ==
    /\ fetcher = "EEA"
    /\ max_retries = EEA_max_retries
    /\ attempt = 0
    /\ fpc = "running"
    /\ result = NoResult
    /\ log = <<>>
    /\ error_count = 0
    /\ store = "absent" \/ store \in Bodies    \* what an earlier run can have left
    /\ store_before = store
    /\ chunks = <<>>
    /\ saved_count = 0
    /\ skipped_count = 0
    /\ ItemIdle
    /\ RunIdle
    /\ PoolIdle
    /\ CatIdle
    /\ MergeIdle
    /\ PagesIdle
    /\ OrchIdle
    /\ CallIdle
    /\ StatsIdle
    /\ GovIdle
    /\ DownIdle

NextEEA ==
    \/ EEA_request
    \/ EEA_write_chunk
    \/ EEA_stream_error
    \/ EEA_verify

SpecEEA == InitEEA /\ [][NextEEA]_vars

\* C5: no run truncates or rewrites the output file it finds: every row that
\* was in the store before the run started is still there, unchanged and in
\* the same position, after any prefix of the run, failed runs included.
C5_PriorRowsKept ==
    store_before # "absent" =>
        /\ store # "absent"
        /\ Len(store) >= Len(store_before)
        /\ \A i \in 1..Len(store_before) : store[i] = store_before[i]

(***************************************************************************)
(* ECOLEX_Legislation_crawl.py: the listing loop is sequential, the detail *)
(* pages of one listing page are parsed by a pool of worker threads, and   *)
(* the main thread writes the page's results in one batch.                 *)
(***************************************************************************)
\* \w of the regular expressions, over the characters of the model
IsWordChar(c) == c \in AsciiDigits \cup {"a", "_", "sup2"}

\* re.search(r'\b(19|20)\d{2}\b', s): the first match, <<>> when there is none
ECOLEX_Legislation_year_match(s) ==
    LET at == {i \in 1..(Len(s) - 3) :
                  /\ <<s[i], s[i + 1]>> \in {<<"1", "9">>, <<"2", "0">>}
                  /\ s[i + 2] \in AsciiDigits
                  /\ s[i + 3] \in AsciiDigits
                  /\ i = 1 \/ ~IsWordChar(s[i - 1])
                  /\ i + 3 = Len(s) \/ ~IsWordChar(s[i + 4])}
        lo == CHOOSE i \in at : \A j \in at : i <= j
    IN IF at = {} THEN <<>> ELSE SubSeq(s, lo, lo + 3)

ECOLEX_Legislation_year_filter(Y) ==
    LET year_match == ECOLEX_Legislation_year_match(Y)
        year_int == IF Y # <<>> /\ year_match # <<>> THEN int(year_match) ELSE 0
    IN IF year_int >= MIN_YEAR \/ Y = <<>> THEN "saved" ELSE "skipped"

ECOLEX_Legislation_title(t) == IF t = Missing THEN <<>> ELSE strip(t)

ECOLEX_Legislation_year(y) == IF y = Missing THEN <<>> ELSE strip(replace(y, "\n", " "))

PoolTitles == {Missing, <<"a">>}

PoolYears == {Missing, <<"2", "0", "2", "0">>, <<"a", " ", "2", "0", "2", "1">>}

NoRow == [kind |-> "None", Policy |-> <<>>, Year |-> <<>>]

\* a parse_detail call: st is "queued" | "adding" | "done"; while "adding",
\* the call is inside `counter += 1` and tmp is the value it read
Task(st, counter, tmp, row) == [st |-> st, counter |-> counter, tmp |-> tmp, row |-> row]

Queued == Task("queued", "none", 0, NoRow)

Running == {k \in DOMAIN task : task[k].st = "adding"}

\* the calls of the current page whose record passed the year filter
Accepted == {k \in DOMAIN task : task[k].row # NoRow}

PoolFrame == UNCHANGED <<itemVars, fetchVars, runVars, eeaVars, catVars, mergeVars, pagesVars, orchVars, callVars, statsVars, govVars, downVars>>

\* one pass of `for i_1 in range(1, page_number + 1)` up to pool.map
Pool_listing_page ==
    /\ ppc = "listing"
    /\ i_1 <= page_number
    /\ \E o \in {"none", "zero", "items"}, n \in 1..MaxPoolItems :
         IF o = "items"
           THEN /\ task' = [k \in 1..n |-> Queued]
                /\ valid_results' = <<>>
                /\ next_result' = 1
                /\ ppc' = "pool"
                /\ empty_run' = 0
                /\ UNCHANGED i_1
           ELSE /\ i_1' = i_1 + 1
                /\ empty_run' = IF o = "zero" THEN empty_run + 1 ELSE empty_run
                /\ UNCHANGED <<task, valid_results, next_result, ppc>>
    /\ UNCHANGED <<page_number, storeVars, write_failed, batch_base, passed, rejected>>
    /\ PoolFrame

\* the range is exhausted: "crawling completed"
Pool_loop_exit ==
    /\ ppc = "listing"
    /\ i_1 > page_number
    /\ ppc' = "done"
    /\ UNCHANGED <<i_1, page_number, task, valid_results, next_result, storeVars>>
    /\ UNCHANGED <<empty_run, write_failed, batch_base, passed, rejected>>
    /\ PoolFrame

\* parse_detail(url) in a worker thread, up to the read of the counter
parse_detail(k, st) ==
    /\ ppc = "pool"
    /\ task[k].st = st
    /\ \E fetched \in BOOLEAN, t \in PoolTitles, y \in PoolYears :
         LET P == ECOLEX_Legislation_title(t)
             Y == ECOLEX_Legislation_year(y)
             v == ECOLEX_Legislation_year_filter(Y)
         IN /\ (fetched /\ P # <<>> /\ v = "saved") =>
                    (Len(store) + Cardinality(Accepted) <= MaxAppends /\ passed < MaxAppends)
            /\ (fetched /\ P # <<>> /\ v = "skipped") =>
                    (skipped_count < MaxSkipped /\ rejected < MaxSkipped)
            /\ task' = [task EXCEPT ![k] =
                  IF ~fetched \/ P = <<>> THEN Task("done", "none", 0, NoRow)
                  ELSE IF v = "saved" THEN Task("adding", "saved", saved_count, Row(P, Y))
                  ELSE Task("adding", "skipped", skipped_count, NoRow)]
            /\ passed' = IF fetched /\ P # <<>> /\ v = "saved" THEN passed + 1 ELSE passed
            /\ rejected' = IF fetched /\ P # <<>> /\ v = "skipped" THEN rejected + 1 ELSE rejected
    /\ UNCHANGED <<ppc, i_1, page_number, valid_results, next_result, storeVars>>
    /\ UNCHANGED <<empty_run, write_failed, batch_base>>
    /\ PoolFrame

\* a call that finds a free worker thread and runs up to the read of the counter
Worker_parse(k) ==
    /\ Cardinality(Running) < ECOLEX_Legislation_max_workers
    /\ parse_detail(k, "queued")

\* the store of `saved_count += 1` / `skipped_count += 1`, and the return
Worker_store(k) ==
    /\ ppc = "pool"
    /\ task[k].st = "adding"
    /\ IF task[k].counter = "saved"
         THEN saved_count' = task[k].tmp + 1 /\ UNCHANGED skipped_count
         ELSE skipped_count' = task[k].tmp + 1 /\ UNCHANGED saved_count
    /\ task' = [task EXCEPT ![k].st = "done"]
    /\ UNCHANGED <<ppc, i_1, page_number, valid_results, next_result, store>>
    /\ UNCHANGED <<empty_run, write_failed, batch_base, passed, rejected>>
    /\ PoolFrame

\* `for result in results`: the main thread takes the next result, in order
Pool_collect ==
    /\ ppc = "pool"
    /\ next_result <= Len(task)
    /\ task[next_result].st = "done"
    /\ valid_results' = IF task[next_result].row # NoRow
                          THEN Append(valid_results, task[next_result].row)
                          ELSE valid_results
    /\ next_result' = next_result + 1
    /\ UNCHANGED <<ppc, i_1, page_number, task, storeVars>>
    /\ UNCHANGED <<empty_run, write_failed, batch_base, passed, rejected>>
    /\ PoolFrame

\* the batch written last row first
batch_written_reversed(rows, j) ==
    LET w == IF j = 0 THEN rows ELSE SubSeq(rows, 1, j - 1)
    IN [i \in 1..Len(w) |-> w[Len(w) + 1 - i]]

\* rows of the batch that reach the file when the write of row j raises
\* (j = 0: no write raises); the with block closes the file on the way out
batch_written(rows, j) == IF j = 0 THEN rows ELSE SubSeq(rows, 1, j - 1)

\* the batch write of valid_results, and the end of the pass; when a
\* writerow raises, `except Exception` of the page loop goes to the next page
Pool_write ==
    /\ ppc = "pool"
    /\ next_result > Len(task)
    /\ \E j \in 0..Len(valid_results) :
          /\ store' = store \o batch_written(valid_results, j)
          /\ write_failed' = j
    /\ batch_base' = Len(store)
    /\ i_1' = i_1 + 1
    /\ ppc' = "listing"
    /\ task' = <<>>
    /\ next_result' = 0
    /\ UNCHANGED <<page_number, valid_results, saved_count, skipped_count>>
    /\ UNCHANGED <<empty_run, passed, rejected>>
    /\ PoolFrame

\* the process is interrupted; only the file survives
Pool_interrupt ==
    /\ ppc \in {"listing", "pool"}
    /\ ppc' = "killed"
    /\ UNCHANGED <<i_1, page_number, task, valid_results, next_result, storeVars>>
    /\ UNCHANGED <<empty_run, write_failed, batch_base, passed, rejected>>
    /\ PoolFrame

InitPool ==
    /\ store = <<Header>>
    /\ saved_count = 0
    /\ skipped_count = 0
    /\ ppc = "listing"
    /\ i_1 = 1
    /\ page_number \in 1..MaxPoolPages
    /\ task = <<>>
    /\ valid_results = <<>>
    /\ next_result = 0
    /\ empty_run = 0
    /\ write_failed = 0
    /\ batch_base = 0
    /\ passed = 0
    /\ rejected = 0
    /\ ItemIdle
    /\ FetchIdle
    /\ RunIdle
    /\ EEAIdle
    /\ CatIdle
    /\ MergeIdle
    /\ PagesIdle
    /\ OrchIdle
    /\ CallIdle
    /\ StatsIdle
    /\ GovIdle
    /\ DownIdle

NextPool ==
    \/ Pool_listing_page
    \/ Pool_loop_exit
    \/ \E k \in DOMAIN task : Worker_parse(k)
    \/ \E k \in DOMAIN task : Worker_store(k)
    \/ Pool_collect
    \/ Pool_write
    \/ Pool_interrupt

SpecPool == InitPool /\ [][NextPool]_vars

\* C6: at every point of a run, the records already accepted and counted as
\* saved are all in the store, except at most the one in flight; so an
\* interruption loses at most one accepted record.
C6_AtMostOneAcceptedUnwritten ==
    ppc # "off" => saved_count <= Len(DataRows(store)) + 1

\* the rows the calls of the current page returned, in the order of the listing
RowsInListingOrder ==
    LET F[k \in 0..Len(task)] ==
            IF k = 0 THEN <<>>
            ELSE IF task[k].row # NoRow THEN Append(F[k - 1], task[k].row) ELSE F[k - 1]
    IN F[Len(task)]

\* C21: appends to the store are serialized and made by the main thread only:
\* the store changes only in a step taken when every parse_detail call of the
\* page has returned, and that step appends rows of the page in listing
\* order, whatever order the workers finished in.
C21_OnlyMainThreadAppendsInListingOrder ==
    [][store' # store =>
            /\ \A k \in DOMAIN task : task[k].st = "done"
            /\ \E n \in 0..Len(RowsInListingOrder) :
                    store' = store \o SubSeq(RowsInListingOrder, 1, n)]_vars

\* the second call of a page has returned its row while the first, which
\* returns a different row, is still running
C21_Witness ==
    /\ ppc = "pool"
    /\ Len(task) >= 2
    /\ task[1].st = "adding"
    /\ task[2].st = "done"
    /\ task[1].row # NoRow
    /\ task[2].row # NoRow
    /\ task[1].row # task[2].row

\* C20: under every interleaving of the parse_detail workers, at completion
\* saved_count is the number of records that passed the year filter and
\* skipped_count the number it rejected.
C20_CountersAccurateAtCompletion ==
    ppc = "done" => (saved_count = passed /\ skipped_count = rejected)

\* C11: a paginated crawl loop ends as soon as three listing pages in a row
\* have yielded zero items, even when the page index has not reached the
\* page count: after three such pages no further listing page is requested.
C11_ThreeEmptyPagesTerminate ==
    empty_run >= max_empty_pages => ~(ppc = "listing" /\ i_1 <= page_number)

\* C12: a failure at a per-item step skips only that item.  For the row
\* write: when the write of one row raises, every other accepted row of the
\* page is in the store once the page is finished.
C12_WriteFailureSkipsOnlyThatRow ==
    (ppc = "listing" /\ write_failed > 0) =>
        Len(store) = batch_base + Len(valid_results) - 1

(***************************************************************************)
(* MEE_PRC_crawl.py, main(): for each category, `while True` over its      *)
(* pages; each row of a page goes through extract_policy_details.          *)
(***************************************************************************)
CatListingOutcomes == {"none", "parse_error", "zero", "entries"}

CatTitles == {Missing, <<"a">>}

CatYears == {Missing, <<"2", "0", "2", "0", "-", "1">>, <<"2", "0", "2", "1", "-", "1">>}

CatFrame == UNCHANGED <<itemVars, runVars, eeaVars, poolVars, mergeVars, pagesVars, orchVars, callVars, statsVars, govVars, downVars>>

\* get_page() of MEE_PRC counts a call that failed on every attempt
CatFetchFrame == UNCHANGED <<fetcher, max_retries, attempt, fpc, result, log>>

\* the handler of extract_policy_details: `error_count += 1` in a function
\* that declares only saved_count and skipped_count global; the assignment
\* makes error_count a local name, reading it raises, the global is untouched
handler_count(global_error_count) == global_error_count

\* `break` out of `while True`: the next category, or the end of main()
MEE_PRC_next_category ==
    /\ category_index' = category_index + 1
    /\ page_num' = 0
    /\ mpc' = IF category_index + 1 < MEE_PRC_num_categories THEN "page" ELSE "done"

\* one pass of `while True` up to the inner loop
MEE_PRC_listing_page ==
    /\ mpc = "page"
    /\ \E o \in CatListingOutcomes, n \in 1..MaxItemsPerPage :
         /\ last_listing' = [category |-> category_index, page |-> page_num, outcome |-> o]
         /\ CASE o = "none" ->            \* res_1 is None: break
                   /\ error_count < MaxErrors
                   /\ error_count' = error_count + 1
                   /\ exhausted' = exhausted + 1
                   /\ MEE_PRC_next_category
                   /\ UNCHANGED entries_left
              [] o = "parse_error" ->     \* except Exception: break
                   /\ MEE_PRC_next_category
                   /\ UNCHANGED <<entries_left, error_count, exhausted>>
              [] o = "zero" ->            \* len(url_2_list) < 1: break
                   /\ MEE_PRC_next_category
                   /\ UNCHANGED <<entries_left, error_count, exhausted>>
              [] o = "entries" ->
                   /\ page_num < MaxPageNum
                   /\ page_num' = page_num + 1
                   /\ entries_left' = n
                   /\ mpc' = "entries"
                   /\ UNCHANGED <<category_index, error_count, exhausted>>
    /\ UNCHANGED <<storeVars, detail_raised>>
    /\ CatFetchFrame
    /\ CatFrame

\* one pass of `for policy_index, single_target in enumerate(url_2_list)`,
\* extract_policy_details included
MEE_PRC_entry ==
    /\ mpc = "entries"
    /\ \E has_link \in BOOLEAN, fetched \in BOOLEAN, write_ok \in BOOLEAN,
          t \in CatTitles, y \in CatYears, fallback \in MEE_PRC_fallback_years :
         LET P == MEE_PRC_title(t)
             Y == MEE_PRC_year(y, fallback)
             v == MEE_PRC_year_filter(Y)
         IN  IF ~has_link
               THEN UNCHANGED <<storeVars, error_count, exhausted, detail_raised>>
             ELSE IF ~fetched
               THEN /\ error_count < MaxErrors
                    /\ error_count' = error_count + 1
                    /\ exhausted' = exhausted + 1
                    /\ UNCHANGED <<storeVars, detail_raised>>
             ELSE IF v = "skipped"
               THEN /\ skipped_count < MaxSkipped
                    /\ skipped_count' = skipped_count + 1
                    /\ UNCHANGED <<store, saved_count, error_count, exhausted, detail_raised>>
             ELSE IF strip(P) = <<>>
               THEN UNCHANGED <<storeVars, error_count, exhausted, detail_raised>>
             ELSE IF ~write_ok
               \* except Exception: `error_count += 1` on a name that is local to
               \* the function and unbound: UnboundLocalError, caught by main()
               THEN /\ detail_raised < MaxErrors
                    /\ detail_raised' = detail_raised + 1
                    /\ error_count' = handler_count(error_count)
                    /\ UNCHANGED <<storeVars, exhausted>>
             ELSE /\ Len(store) <= MaxAppends
                  /\ store' = append_row(store, Row(P, Y))
                  /\ saved_count' = saved_count + 1
                  /\ UNCHANGED <<skipped_count, error_count, exhausted, detail_raised>>
    /\ entries_left' = entries_left - 1
    /\ mpc' = IF entries_left' = 0 THEN "page" ELSE mpc
    /\ UNCHANGED <<category_index, page_num, last_listing>>
    /\ CatFetchFrame
    /\ CatFrame

InitCat ==
    /\ store = <<Header>>
    /\ saved_count = 0
    /\ skipped_count = 0
    /\ mpc = "page"
    /\ category_index = 0
    /\ page_num = 0
    /\ entries_left = 0
    /\ last_listing = NoListing
    /\ exhausted = 0
    /\ detail_raised = 0
    /\ ItemIdle
    /\ FetchIdle
    /\ RunIdle
    /\ EEAIdle
    /\ PoolIdle
    /\ MergeIdle
    /\ PagesIdle
    /\ OrchIdle
    /\ CallIdle
    /\ StatsIdle
    /\ GovIdle
    /\ DownIdle

NextCat ==
    \/ MEE_PRC_listing_page
    \/ MEE_PRC_entry

SpecCat == InitCat /\ [][NextCat]_vars

\* C13: when the fetch of a listing page fails after all retries, only that
\* page is skipped: the run goes on with the next page of the same listing
\* or category.
C13_FailedPageSkipsOnlyThatPage ==
    last_listing.outcome = "none" =>
        /\ mpc = "page"
        /\ category_index = last_listing.category
        /\ page_num = last_listing.page + 1

\* C38: the reported error_count is the number of fetches that used up their
\* retries plus the number of items whose detail processing raised.
C38_ErrorCountCountsBoth ==
    error_count = exhausted + detail_raised

\* ---------------------------------------------------------------------------
\* merge_crawler_results.py and simple_merge.py: reconciling two snapshots.
\*
\* A DataFrame is a non-empty sequence of rows; a row is a function from the
\* column names of its frame to cell values.  <<>> stands for a snapshot that
\* does not exist (old_data / new_data is None).  Frames with no rows are
\* outside the model.
\* ---------------------------------------------------------------------------

MaxTableRows == 2

\* the cell pandas puts where a frame has no such column
NaN == <<"NaN">>

\* str(cell)
str(v) == IF v = NaN THEN <<"n", "a", "n">> ELSE v

\* s.lower()
lower(s) == [i \in 1..Len(s) |-> IF s[i] = "A" THEN "a" ELSE s[i]]

\* hashlib.md5(...).hexdigest(): taken as injective on the identifiers of the model
md5(s) == <<"md5">> \o s

\* row.get(key, default)
get(row, key, default) == IF key \in DOMAIN row THEN row[key] ELSE default

create_file_hash(row) ==
    LET url == str(get(row, "URL", get(row, "policy_url", get(row, "url", <<>>))))
        title == str(get(row, "Policy", get(row, "policy", get(row, "title", <<>>))))
        identifier == strip(lower(url \o <<"|">> \o title))
    IN md5(identifier)

columns(df) == DOMAIN df[1]

\* df.rename(columns={old_col: new_col})
rename(df, old_col, new_col) ==
    [i \in DOMAIN df |->
        [c \in (columns(df) \ {old_col}) \cup {new_col} |->
            IF c = new_col THEN df[i][old_col] ELSE df[i][c]]]

\* df[col] = value
with_column(df, col, value) ==
    [i \in DOMAIN df |->
        [c \in columns(df) \cup {col} |-> IF c = col THEN value ELSE df[i][c]]]

\* df.drop(columns=cols)
drop(df, cols) ==
    [i \in DOMAIN df |-> [c \in columns(df) \ cols |-> df[i][c]]]

\* the column mappings that can apply to the headers of the model, in order
column_mappings == << <<"policy_url", "URL">>, <<"url", "URL">>,
                      <<"policy", "Policy">>, <<"title", "Policy">> >>

RECURSIVE apply_mappings(_, _)
apply_mappings(df, k) ==
    IF k > Len(column_mappings) THEN df
    ELSE LET old_col == column_mappings[k][1]
             new_col == column_mappings[k][2]
         IN IF old_col \in columns(df) /\ new_col \notin columns(df)
            THEN apply_mappings(rename(df, old_col, new_col), k + 1)
            ELSE apply_mappings(df, k + 1)

standardize_columns(df, source_type) ==
    LET mapped == apply_mappings(df, 1)
    IN IF "Source" \notin columns(mapped)
       THEN with_column(mapped, "Source", source_type)
       ELSE mapped

\* pd.concat([a, b], ignore_index=True)
concat(a, b) ==
    LET cols == columns(a) \cup columns(b)
        fill(row) == [c \in cols |-> IF c \in DOMAIN row THEN row[c] ELSE NaN]
    IN [i \in 1..(Len(a) + Len(b)) |->
            IF i <= Len(a) THEN fill(a[i]) ELSE fill(b[i - Len(a)])]

\* the orders in which a sort may leave rows that compare equal
Perms(seq) ==
    IF seq = <<>> THEN {<<>>}
    ELSE {[i \in DOMAIN seq |-> seq[p[i]]] : p \in Permutations(DOMAIN seq)}

\* the source tags, in the order Python compares strings
source_order == <<"new", "new_crawl", "old", "old_crawl">>

rank(v) == CHOOSE i \in DOMAIN source_order : source_order[i] = v

\* df.sort_values(by, ascending=...): the default sort kind (quicksort) is not
\* stable, so rows with equal keys may come out in any order.  Every frame of
\* the model has at most two source tags.
sort_values(df, by, ascending) ==
    LET keys == {rank(df[i][by]) : i \in DOMAIN df}
        lo == CHOOSE k \in keys : \A m \in keys : k <= m
        hi == CHOOSE k \in keys : \A m \in keys : m <= k
        first == IF ascending THEN lo ELSE hi
        head == SelectSeq(df, LAMBDA row : rank(row[by]) = first)
        tail == SelectSeq(df, LAMBDA row : rank(row[by]) # first)
    IN {a \o b : a \in Perms(head), b \in Perms(tail)}

\* the rows of df at the positions in kept, in order
take(df, kept) ==
    LET F[i \in 0..Len(df)] ==
            IF i = 0 THEN <<>>
            ELSE IF i \in kept THEN Append(F[i - 1], df[i]) ELSE F[i - 1]
    IN F[Len(df)]

key_of(row, subset) == [c \in subset |-> row[c]]

\* keep='last'
drop_duplicates_keep_last(df, subset) ==
    take(df, {i \in DOMAIN df :
                \A j \in (i + 1)..Len(df) : key_of(df[j], subset) # key_of(df[i], subset)})

\* keep=False turned round: nothing is dropped
drop_duplicates_keep_all(df, subset) == df

\* df.drop_duplicates(subset=subset, keep='first')
drop_duplicates(df, subset) ==
    take(df, {i \in DOMAIN df :
                \A j \in 1..(i - 1) : key_of(df[j], subset) # key_of(df[i], subset)})

\* df['_hash'] = df.apply(create_file_hash, axis=1); df['_data_source'] = source
tagged(df, source) ==
    [i \in DOMAIN df |->
        [c \in columns(df) \cup {"_hash", "_data_source"} |->
            IF c = "_hash" THEN create_file_hash(df[i])
            ELSE IF c = "_data_source" THEN source
            ELSE df[i][c]]]

\* merge_dataframes up to the frame whose helper columns are then dropped:
\* the set of frames the sort may produce
merge_dataframes(old_df, new_df) ==
    LET combined_df == concat(tagged(old_df, "old_crawl"), tagged(new_df, "new_crawl"))
    IN {drop_duplicates(sorted, {"_hash"}) :
            sorted \in sort_values(combined_df, "_data_source", TRUE)}

helper_columns == {"_hash", "_data_source", "_source"}

\* combined_df.drop(columns=['_hash', '_data_source']): what the caller gets
returned(df) == drop(df, helper_columns)

\* the header a crawler gives its URL column; every crawler has a Policy column
UrlHeaders == {"URL", "policy_url", "single_url_2"}

UrlValues == {<<"u">>, <<"v">>}

TitleValues == {<<"a">>, <<"A">>}

RowsWith(h) ==
    {[c \in {h, "Policy"} |-> IF c = h THEN u ELSE t] : u \in UrlValues, t \in TitleValues}

\* the snapshots a results directory can hold
Tables == UNION {UNION {[1..n -> RowsWith(h)] : n \in 1..MaxTableRows} : h \in UrlHeaders}

\* the rows the two snapshots of one merge hold together
MaxRowsTogether == MaxTableRows + 1

website_name == <<"s">>

MergeFrame == UNCHANGED <<itemVars, storeVars, fetchVars, runVars, eeaVars, poolVars, catVars, pagesVars, orchVars, callVars, statsVars, govVars, downVars>>

\* merge_dataframes(old_data, new_data)
Merge_dataframes ==
    /\ mgpc = "loaded"
    /\ old_data # <<>>
    /\ new_data # <<>>
    /\ merged_data' \in merge_dataframes(old_data, new_data)
    /\ mgpc' = "merged"
    /\ UNCHANGED <<old_data, new_data, remerged>>
    /\ MergeFrame

\* merge_dataframes(merge_dataframes(old_data, new_data), new_data)
Merge_again ==
    /\ mgpc = "merged"
    /\ remerged' \in merge_dataframes(returned(merged_data), new_data)
    /\ mgpc' = "remerged"
    /\ UNCHANGED <<old_data, new_data, merged_data>>
    /\ MergeFrame

\* merge_dataframes(old_data, old_data)
Merge_self ==
    /\ mgpc = "loaded"
    /\ old_data # <<>>
    /\ merged_data' \in merge_dataframes(old_data, old_data)
    /\ mgpc' = "self_merged"
    /\ UNCHANGED <<old_data, new_data, remerged>>
    /\ MergeFrame

\* merge_website_data: merged_data becomes the frame written to the output file
merge_website_data ==
    /\ mgpc = "loaded"
    /\ LET old_std == IF old_data = <<>> THEN <<>>
                      ELSE standardize_columns(old_data, website_name)
           new_std == IF new_data = <<>> THEN <<>>
                      ELSE standardize_columns(new_data, website_name)
       IN \/ /\ old_std = <<>>
             /\ new_std = <<>>
             /\ mgpc' = "no_data"
             /\ UNCHANGED merged_data
          \/ /\ old_std = <<>>
             /\ new_std # <<>>
             /\ merged_data' = new_std
             /\ mgpc' = "written"
          \/ /\ old_std # <<>>
             /\ new_std = <<>>
             /\ merged_data' = old_std
             /\ mgpc' = "written"
          \/ /\ old_std # <<>>
             /\ new_std # <<>>
             /\ merged_data' \in {returned(m) : m \in merge_dataframes(old_std, new_std)}
             /\ mgpc' = "written"
    /\ UNCHANGED <<old_data, new_data, remerged>>
    /\ MergeFrame

dedupe_candidates == <<"URL", "url", "Policy", "policy", "title">>

\* the first candidate column the frame has
dedupe_cols(df) ==
    LET at == {k \in DOMAIN dedupe_candidates : dedupe_candidates[k] \in columns(df)}
    IN IF at = {} THEN {}
       ELSE {dedupe_candidates[CHOOSE k \in at : \A m \in at : k <= m]}

\* simple_merge for one file: merged_data becomes merged_df before '_source' is dropped
simple_merge ==
    /\ mgpc = "loaded"
    /\ \/ /\ old_data = <<>>
          /\ new_data = <<>>
          /\ mgpc' = "no_data"
          /\ UNCHANGED merged_data
       \/ /\ ~(old_data = <<>> /\ new_data = <<>>)
          /\ LET old_df == IF old_data = <<>> THEN <<>>
                           ELSE with_column(old_data, "_source", "old")
                 new_df == IF new_data = <<>> THEN <<>>
                           ELSE with_column(new_data, "_source", "new")
                 merged_df == IF old_df = <<>> THEN new_df
                              ELSE IF new_df = <<>> THEN old_df
                              ELSE concat(old_df, new_df)
             IN IF dedupe_cols(merged_df) # {}
                THEN merged_data' \in
                        {drop_duplicates(sorted, dedupe_cols(merged_df)) :
                            sorted \in sort_values(merged_df, "_source", FALSE)}
                ELSE merged_data' = merged_df
          /\ mgpc' = "simple_merged"
    /\ UNCHANGED <<old_data, new_data, remerged>>
    /\ MergeFrame

InitMerge ==
    /\ mgpc = "loaded"
    /\ old_data \in Tables \cup {<<>>}
    /\ new_data \in Tables \cup {<<>>}
    /\ Len(old_data) + Len(new_data) <= MaxRowsTogether
    /\ merged_data = <<>>
    /\ remerged = <<>>
    /\ ItemIdle
    /\ store = <<Header>>
    /\ saved_count = 0
    /\ skipped_count = 0
    /\ FetchIdle
    /\ RunIdle
    /\ EEAIdle
    /\ PoolIdle
    /\ CatIdle
    /\ PagesIdle
    /\ OrchIdle
    /\ CallIdle
    /\ StatsIdle
    /\ GovIdle
    /\ DownIdle

NextMerge ==
    \/ Merge_dataframes
    \/ Merge_again
    \/ Merge_self
    \/ merge_website_data
    \/ simple_merge

SpecMerge == InitMerge /\ [][NextMerge]_vars

\* the Fingerprints of the rows of a frame
Fingerprints(df) == {create_file_hash(df[i]) : i \in DOMAIN df}

\* the row e of a merged frame is the row r of a snapshot, cell by cell
TakenFrom(e, r) == \A c \in DOMAIN r : e[c] = r[c]

\* C14: merge_dataframes(old, new) returns a table whose Fingerprints are
\* exactly those of old and of new together, one row per Fingerprint; a
\* Fingerprint present in new is represented by a row of new, and a row of old
\* appears only for a Fingerprint that new does not have.
C14_UnionNewWins ==
    mgpc = "merged" =>
        /\ {merged_data[i]["_hash"] : i \in DOMAIN merged_data}
                = Fingerprints(old_data) \cup Fingerprints(new_data)
        /\ \A i, j \in DOMAIN merged_data :
                merged_data[i]["_hash"] = merged_data[j]["_hash"] => i = j
        /\ \A i \in DOMAIN merged_data :
                LET e == merged_data[i]
                IN IF e["_hash"] \in Fingerprints(new_data)
                   THEN /\ e["_data_source"] = "new_crawl"
                        /\ \E k \in DOMAIN new_data :
                                /\ create_file_hash(new_data[k]) = e["_hash"]
                                /\ TakenFrom(e, new_data[k])
                   ELSE /\ e["_data_source"] = "old_crawl"
                        /\ \E k \in DOMAIN old_data :
                                /\ create_file_hash(old_data[k]) = e["_hash"]
                                /\ TakenFrom(e, old_data[k])

\* a Fingerprint of both snapshots whose rows differ, and a Fingerprint only
\* old has: the merged frame has the row of new for the one and the row of
\* old for the other
C14_Witness ==
    /\ mgpc = "merged"
    /\ \E o \in DOMAIN old_data, n \in DOMAIN new_data, i \in DOMAIN merged_data :
            /\ create_file_hash(old_data[o]) = create_file_hash(new_data[n])
            /\ columns(old_data) = columns(new_data)
            /\ old_data[o] # new_data[n]
            /\ TakenFrom(merged_data[i], new_data[n])
    /\ \E o \in DOMAIN old_data, i \in DOMAIN merged_data :
            /\ create_file_hash(old_data[o]) \notin Fingerprints(new_data)
            /\ merged_data[i]["_data_source"] = "old_crawl"
            /\ TakenFrom(merged_data[i], old_data[o])

\* the _hash column of a merged frame
HashColumn(df) == {df[i]["_hash"] : i \in DOMAIN df}

\* the rows of a merged frame as the caller gets them
RowSet(df) == {returned(df)[i] : i \in DOMAIN df}

\* C15: merging the result of merge(A, B) with B again gives the same
\* Fingerprint set and the same winning rows as merge(A, B).
C15_MergeIdempotent ==
    mgpc = "remerged" =>
        /\ HashColumn(remerged) = HashColumn(merged_data)
        /\ RowSet(remerged) = RowSet(merged_data)

\* C16 as stated: merging a table with itself yields the original row count.
C16_SelfMergeKeepsRowCount ==
    mgpc = "self_merged" => Len(merged_data) = Len(old_data)

\* C16, amended: merging a table with itself yields one row per Fingerprint of
\* the table, which is the original row count when no two of its rows share a
\* Fingerprint.
C16_SelfMergeOneRowPerFingerprint ==
    mgpc = "self_merged" =>
        /\ Len(merged_data) = Cardinality(Fingerprints(old_data))
        /\ (\A i, j \in DOMAIN old_data :
                create_file_hash(old_data[i]) = create_file_hash(old_data[j]) => i = j)
            => Len(merged_data) = Len(old_data)

\* a table of two rows with two Fingerprints, merged with itself into two rows
C16_Witness ==
    /\ mgpc = "self_merged"
    /\ Len(old_data) = 2
    /\ Cardinality(Fingerprints(old_data)) = 2
    /\ Len(merged_data) = 2

\* C17: the table merge_website_data writes has no two rows with the same
\* Fingerprint, whether both snapshots exist or only one of them.
C17_WrittenTableDeduplicated ==
    mgpc = "written" =>
        \A i, j \in DOMAIN merged_data :
            create_file_hash(merged_data[i]) = create_file_hash(merged_data[j]) => i = j

\* C18: when a row of the old snapshot and a row of the new snapshot share the
\* deduplication key, the row simple_merge keeps for that key is the new one.
C18_SimpleMergeKeepsNew ==
    (mgpc = "simple_merged" /\ old_data # <<>> /\ new_data # <<>>) =>
        LET all == concat(old_data, new_data)
            K == dedupe_cols(all)
            old_keys == {key_of(all[i], K) : i \in 1..Len(old_data)}
            new_keys == {key_of(all[i], K) : i \in (Len(old_data) + 1)..Len(all)}
        IN \A i \in DOMAIN merged_data :
                key_of(merged_data[i], K) \in old_keys \cap new_keys
                    => merged_data[i]["_source"] = "new"

\* the cell of the row's URL column, whatever its header
url_like(row) == row[CHOOSE h \in UrlHeaders : h \in DOMAIN row]

\* C19: two rows have the same Fingerprint exactly when their URLs are equal
\* and their titles are equal, ignoring case, whatever header the URL column
\* has.
C19_FingerprintIsUrlAndTitle ==
    LET rows == {old_data[i] : i \in DOMAIN old_data} \cup {new_data[i] : i \in DOMAIN new_data}
    IN \A r1, r2 \in rows :
            create_file_hash(r1) = create_file_hash(r2)
                <=> /\ lower(url_like(r1)) = lower(url_like(r2))
                    /\ lower(r1["Policy"]) = lower(r2["Policy"])

\* ---------------------------------------------------------------------------
\* get_total_pages of APEP_crawl.py on the contents of the root page.
\* first_page.kind is "none" (get_page returned None), "get_page_raised",
\* "parse_raised" (etree.HTML or an xpath raises) or "page"; for a page,
\* first_page.links[k] is the list of hrefs the k-th pagination selector
\* yields.  "page=" stands for these five characters in a href.
\* ---------------------------------------------------------------------------

MaxLinks == 1

pagination_selectors == 1..4

LastUrls ==
    { <<"x">>,
      <<"page=", "0">>,
      <<"x", "page=", "2", "0", "x">>,
      <<"page=", "sup2", "page=", "3">> }

LinkLists == UNION {[1..n -> LastUrls] : n \in 0..MaxLinks}

\* re.search(r'page=(\d+)', last_url): the digits of the leftmost match,
\* <<>> when there is no match
page_match(last_url) ==
    LET at == {i \in 1..(Len(last_url) - 1) :
                    last_url[i] = "page=" /\ last_url[i + 1] \in AsciiDigits}
        i == CHOOSE a \in at : \A b \in at : a <= b
        stop == {e \in (i + 1)..Len(last_url) :
                    /\ \A m \in (i + 1)..e : last_url[m] \in AsciiDigits
                    /\ (e = Len(last_url) \/ last_url[e + 1] \notin AsciiDigits)}
    IN IF at = {} THEN <<>> ELSE SubSeq(last_url, i + 1, CHOOSE e \in stop : TRUE)

\* the estimate left as the index of the last page
total_from_last_same(last_page_num) == last_page_num

\* total = last_page_num + 1
total_from_last(last_page_num) == last_page_num + 1

\* for selector in pagination_selectors: ... return total, else the default
RECURSIVE scan_selectors(_, _)
scan_selectors(links, k) ==
    IF k \notin pagination_selectors THEN DEFAULT_TOTAL_PAGES
    ELSE IF links[k] # <<>> /\ page_match(links[k][1]) # <<>>
         THEN total_from_last(int(page_match(links[k][1])))
         ELSE scan_selectors(links, k + 1)

PagesFrame ==
    UNCHANGED <<itemVars, storeVars, fetchVars, runVars, eeaVars, poolVars, catVars, mergeVars, orchVars, callVars, statsVars, govVars, downVars>>

\* one call of get_total_pages(); every exception is caught inside it
get_total_pages_call ==
    /\ gpc = "called"
    /\ total' = IF first_page.kind = "page"
                THEN scan_selectors(first_page.links, 1)
                ELSE DEFAULT_TOTAL_PAGES
    /\ gpc' = "returned"
    /\ UNCHANGED first_page
    /\ PagesFrame

InitPages ==
    /\ gpc = "called"
    /\ first_page \in
            {[kind |-> k, links |-> <<>>] : k \in {"none", "get_page_raised", "parse_raised"}}
            \cup {[kind |-> "page", links |-> l] : l \in [pagination_selectors -> LinkLists]}
    /\ total = 0
    /\ ItemIdle
    /\ store = <<Header>>
    /\ saved_count = 0
    /\ skipped_count = 0
    /\ FetchIdle
    /\ RunIdle
    /\ EEAIdle
    /\ PoolIdle
    /\ CatIdle
    /\ MergeIdle
    /\ OrchIdle
    /\ CallIdle
    /\ StatsIdle
    /\ GovIdle
    /\ DownIdle

\* total_pages = get_total_pages(); current_page = start_page; the first pass
\* of `while current_page < total_pages` up to its get_page(url_1)
APEP_first_listing_fetch ==
    /\ gpc = "returned"
    /\ 0 < total
    /\ gpc' = "listing"
    /\ UNCHANGED <<first_page, total>>
    /\ PagesFrame

NextPages ==
    \/ get_total_pages_call
    \/ APEP_first_listing_fetch

SpecPages == InitPages /\ [][NextPages]_vars

\* the selectors whose first href holds a page index
Parseable(links) ==
    {k \in pagination_selectors : links[k] # <<>> /\ page_match(links[k][1]) # <<>>}

\* C23: get_total_pages returns lastIndex + 1 for the first selector, in the
\* fixed priority order, that yields a parseable page index; when the root
\* page cannot be fetched, no selector yields one, or parsing raises, it
\* returns the default (218); it never raises.
C23_FirstParseableSelectorPlusOne ==
    /\ gpc # "raised"
    /\ gpc = "returned" =>
          IF first_page.kind = "page" /\ Parseable(first_page.links) # {}
          THEN LET k == CHOOSE a \in Parseable(first_page.links) :
                            \A b \in Parseable(first_page.links) : a <= b
               IN total = DecimalValue(page_match(first_page.links[k][1])) + 1
          ELSE total = DEFAULT_TOTAL_PAGES

\* the first selector yields a href without a page index, the second one with
\* index 20 and the third one with index 0: the estimate is 21
C23_Witness ==
    /\ gpc = "returned"
    /\ first_page.kind = "page"
    /\ first_page.links[1] = << <<"x">> >>
    /\ first_page.links[2] = << <<"x", "page=", "2", "0", "x">> >>
    /\ first_page.links[3] = << <<"page=", "0">> >>
    /\ total = 21

\* C24: when the root page of the source cannot be fetched on first contact,
\* the run ends without fetching any further listing page.
C24_RootFetchFailureIsTerminal ==
    first_page.kind = "none" => gpc # "listing"

\* ---------------------------------------------------------------------------
\* run_all_crawlers.py: the master script that runs the crawlers in sequence
\* ---------------------------------------------------------------------------

MaxCrawlers == 3
MaxIncluded == 2

\* the keys of the CRAWLERS dictionary, in the order they are written
CRAWLER_NAMES ==
    <<"APEP", "CDR_CCUS", "CDR_NETS", "CRT", "ECOLEX_Legislation", "ECOLEX_Legislation_NonThread",
      "ECOLEX_Treaty", "EEA", "GOV_PRC", "ICAP_ETS", "IEA", "MEE_PRC", "LSE_CP_Download",
      "Climate_Policy_Download">>

CRAWLERS == SubSeq(CRAWLER_NAMES, 1, MaxCrawlers)

Elems(q) == {q[k] : k \in DOMAIN q}

\* what --include and --exclude may name: known crawlers and a name CRAWLERS lacks
ArgNames == Elems(CRAWLERS) \cup {"no_such_crawler"}

IncludeLists == UNION {[1..n -> ArgNames] : n \in 0..MaxIncluded}

\* the mutant of crawlers_selected: the names kept in the order --include gives them
crawlers_in_given_order(included, excluded) ==
    SelectSeq(included, LAMBDA n : n \in Elems(CRAWLERS) /\ n \notin excluded)

\* {name: info for name, info in CRAWLERS.items() if name in included}, then
\* {... for name, info in crawlers_to_run.items() if name not in excluded}
crawlers_selected(included, excluded) ==
    SelectSeq(CRAWLERS, LAMBDA n : (included = <<>> \/ n \in Elems(included)) /\ n \notin excluded)

\* missing = set(included) - set(crawlers_to_run.keys())
missing(included) == Elems(included) \ Elems(CRAWLERS)

RunStatuses == {"success", "failed", "timeout", "crashed"}

OrchFrame ==
    UNCHANGED <<itemVars, storeVars, fetchVars, runVars, eeaVars, poolVars, catVars, mergeVars, pagesVars, callVars, statsVars, govVars, downVars>>

DEFAULT_MIN_YEAR == 2021

\* --min-year: the default, or another year
MinYearArgs == {DEFAULT_MIN_YEAR, DEFAULT_MIN_YEAR - 1}

\* update_crawler_min_year: re.sub(r'MIN_YEAR\s*=\s*\d+', f'MIN_YEAR = {min_year}', content),
\* written back when the pattern is found and the content changed
update_crawler_min_year(in_file, min_year) ==
    IF in_file = 0 THEN in_file ELSE min_year

\* `for name, info in crawlers_to_run.items(): update_crawler_min_year(info['file'], args.min_year)`
files_updated(files, sel, min_year) ==
    [name \in DOMAIN files |->
        IF name \in Elems(sel) THEN update_crawler_min_year(files[name], min_year) ELSE files[name]]

\* main() up to start_time = time.time(): the arguments, the selection, the
\* early returns (--list, unknown --include names, nothing selected, --dry-run),
\* the MIN_YEAR update of the selected crawler files, then the prompt (a
\* confirmation other than y/yes or an interrupt at the prompt returns)
main_prelude ==
    /\ opc = "off"
    /\ \E list \in BOOLEAN, dry_run \in BOOLEAN, included \in IncludeLists,
          excluded \in SUBSET ArgNames, response \in {"y", "n", "KeyboardInterrupt"},
          min_year \in MinYearArgs :
          LET sel == crawlers_selected(included, excluded) IN
          IF list
          THEN /\ opc' = "returned"
               /\ ended_by' = "list"
               /\ crawlers_to_run' = <<>>
               /\ UNCHANGED min_year_in_file
          ELSE IF missing(included) # {}
          THEN /\ opc' = "returned"
               /\ ended_by' = "unknown_include"
               /\ crawlers_to_run' = crawlers_selected(included, {})
               /\ UNCHANGED min_year_in_file
          ELSE IF Len(sel) = 0 \/ dry_run
          THEN /\ opc' = "returned"
               /\ ended_by' = IF Len(sel) = 0 THEN "nothing_selected" ELSE "dry_run"
               /\ crawlers_to_run' = sel
               /\ UNCHANGED min_year_in_file
          ELSE /\ min_year_in_file' = files_updated(min_year_in_file, sel, min_year)
               /\ crawlers_to_run' = sel
               /\ IF response # "y"
                  THEN opc' = "returned" /\ ended_by' = "declined"
                  ELSE opc' = "loop" /\ UNCHANGED ended_by
    /\ run_index' = 0
    /\ UNCHANGED <<successful_crawlers, failed_crawlers, crawler_results, launched, interrupted,
                   summary_printed, report>>
    /\ OrchFrame

\* crawler_results[crawler_name] = {...}: a dictionary keeps one entry per key
record_result(results, name, status) ==
    IF \E k \in DOMAIN results : results[k].name = name
    THEN [k \in DOMAIN results |->
            IF results[k].name = name THEN [name |-> name, status |-> status] ELSE results[k]]
    ELSE Append(results, [name |-> name, status |-> status])

\* one pass of the for loop: run_crawler(name, info), whose own handlers turn a
\* non-zero return code, a timeout and any Exception into a recorded result,
\* then the pause before the next crawler. A KeyboardInterrupt is caught by
\* nothing in run_crawler: it leaves the loop, during the run or during the pause.
run_crawler ==
    /\ opc = "loop"
    /\ run_index < Len(crawlers_to_run)
    /\ LET name == crawlers_to_run[run_index + 1] IN
       /\ launched' = Append(launched, name)
       /\ run_index' = run_index + 1
       /\ \/ /\ interrupted' = TRUE
             /\ opc' = "finally"
             /\ UNCHANGED <<successful_crawlers, failed_crawlers, crawler_results>>
          \/ \E status \in RunStatuses, paused \in BOOLEAN :
                /\ crawler_results' = record_result(crawler_results, name, status)
                /\ IF status = "success"
                   THEN /\ successful_crawlers' = successful_crawlers + 1
                        /\ UNCHANGED failed_crawlers
                   ELSE /\ failed_crawlers' = failed_crawlers + 1
                        /\ UNCHANGED successful_crawlers
                /\ IF run_index + 1 < Len(crawlers_to_run) /\ ~paused
                   THEN /\ interrupted' = TRUE
                        /\ opc' = "finally"
                   ELSE /\ UNCHANGED interrupted
                        /\ opc' = "loop"
    /\ UNCHANGED <<crawlers_to_run, summary_printed, report, min_year_in_file, ended_by>>
    /\ OrchFrame

\* the for loop is exhausted: control falls into the finally block
main_loop_end ==
    /\ opc = "loop"
    /\ run_index = Len(crawlers_to_run)
    /\ opc' = "finally"
    /\ UNCHANGED <<crawlers_to_run, run_index, successful_crawlers, failed_crawlers, crawler_results,
                   launched, interrupted, summary_printed, report, min_year_in_file, ended_by>>
    /\ OrchFrame

\* finally: print_final_summary(); save_execution_report(), which catches its
\* own failure to write the file and only prints a warning
main_finally ==
    /\ opc = "finally"
    /\ summary_printed' = TRUE
    /\ \E written \in BOOLEAN : report' = IF written THEN "saved" ELSE "failed"
    /\ opc' = "finished"
    /\ UNCHANGED <<crawlers_to_run, run_index, successful_crawlers, failed_crawlers, crawler_results,
                   launched, interrupted, min_year_in_file, ended_by>>
    /\ OrchFrame

InitOrch ==
    /\ ItemIdle
    /\ store = <<>>
    /\ saved_count = 0
    /\ skipped_count = 0
    /\ FetchIdle
    /\ RunIdle
    /\ EEAIdle
    /\ PoolIdle
    /\ CatIdle
    /\ MergeIdle
    /\ PagesIdle
    /\ OrchIdle
    /\ CallIdle
    /\ StatsIdle
    /\ GovIdle
    /\ DownIdle

NextOrch ==
    \/ main_prelude
    \/ run_crawler
    \/ main_loop_end
    \/ main_finally

SpecOrch == InitOrch /\ [][NextOrch]_vars

\* C40: whenever main() returns without having executed a crawler (--list,
\* --dry-run, an unknown name in --include, a declined confirmation), every
\* crawler source file is as it was.
C40_NoRunLeavesFilesUnchanged ==
    (opc = "returned" /\ launched = <<>>) => min_year_in_file = shipped_min_year

IsPrefix(p, q) == Len(p) <= Len(q) /\ SubSeq(q, 1, Len(p)) = p

Increasing(q) ==
    \A a, b \in DOMAIN q : a < b =>
        \E x, y \in DOMAIN CRAWLERS : x < y /\ CRAWLERS[x] = q[a] /\ CRAWLERS[y] = q[b]

ResultNames == [k \in DOMAIN crawler_results |-> crawler_results[k].name]

MaxUnits == 2

GOV_PRC_max_retries == 3
GOV_PRC_api_attempts == 3
MEE_PRC_REQUEST_DELAY == 3

Callers == {"APEP", "GOV_PRC", "MEE_PRC"}

\* GOV_PRC_crawl.get_page has the lines of APEP_crawl.get_page
fetcher_of(c) == IF c = "MEE_PRC" THEN "MEE_PRC" ELSE "APEP"

Call(w) == [ev |-> "call", attempt |-> 0, what |-> w, secs |-> 0]

LastIndex(q, ev) ==
    IF \E k \in DOMAIN q : q[k].ev = ev
    THEN CHOOSE k \in DOMAIN q : q[k].ev = ev /\ \A j \in DOMAIN q : q[j].ev = ev => j <= k
    ELSE 0

\* the part of the log from the last request on
since_last_request(q) ==
    IF LastIndex(q, "request") = 0 THEN <<>> ELSE SubSeq(q, LastIndex(q, "request"), Len(q))

\* the events of the call of get_page that is running or has just returned
this_call(q) == SubSeq(q, LastIndex(q, "call") + 1, Len(q))

requests_in(q) == Len(SelectSeq(q, LAMBDA e : e.ev = "request"))

\* the sleep the calling loop makes before it goes on to the next URL
\*   APEP     none: every time.sleep of the script is inside get_page
\*   MEE_PRC  time.sleep(REQUEST_DELAY) after each detail item, none after a listing page
\*   GOV_PRC  time.sleep(random.uniform(2, 4)) at the end of a detail item's pass,
\*            skipped by the `continue` of a failed detail fetch; none after a listing page
caller_pauses(c, u, r) ==
    CASE c = "MEE_PRC" /\ u = "detail" -> {<<Sleep(0, "request_delay", MEE_PRC_REQUEST_DELAY)>>}
      [] c = "GOV_PRC" /\ u = "detail" /\ r # None -> {<<Sleep(0, "request_delay", d)>> : d \in 2..4}
      [] OTHER -> {<<>>}

CallFrame ==
    UNCHANGED <<itemVars, storeVars, runVars, eeaVars, poolVars, catVars, mergeVars, pagesVars, orchVars, statsVars, govVars, downVars>>

\* GOV_PRC: `for n_p in range(3)` around get_page(url): a None (`continue`)
\* or an exception (`except Exception: ... continue`) starts the next pass,
\* which calls get_page with the same URL
GOV_PRC_fetch_again ==
    /\ caller = "GOV_PRC"
    /\ unit = "listing"
    /\ fpc \in {"returned", "raised"}
    /\ result \in {None, Raised}
    /\ n_p < GOV_PRC_api_attempts - 1
    /\ n_p' = n_p + 1
    /\ requests_before' = requests_before + requests_in(this_call(log))
    /\ log' = Append(since_last_request(log), Call("same_url"))
    /\ attempt' = 0
    /\ fpc' = "running"
    /\ result' = NoResult
    /\ UNCHANGED <<fetcher, max_retries, error_count, caller, unit, units>>
    /\ CallFrame

\* the loop goes on to another URL: the next listing page (or the next
\* category's first page) or a detail item of the page just fetched
Caller_next_url ==
    /\ caller \in Callers
    /\ units < MaxUnits
    /\ fpc \in {"returned", "raised"}
    \* APEP fetches listing pages outside any try: an exception ends the script
    /\ ~(caller = "APEP" /\ unit = "listing" /\ fpc = "raised")
    \* GOV_PRC gives a listing page up only after its last pass
    /\ (caller = "GOV_PRC" /\ unit = "listing" /\ result \in {None, Raised})
            => n_p = GOV_PRC_api_attempts - 1
    /\ \E u \in {"listing", "detail"}, pause \in caller_pauses(caller, unit, result) :
          \* a listing page that was not fetched yields no detail items
          /\ (unit = "listing" /\ result.kind # "body") => u = "listing"
          /\ unit' = u
          /\ log' = (since_last_request(log) \o pause) \o <<Call("next_url")>>
    /\ units' = units + 1
    /\ n_p' = 0
    /\ requests_before' = 0
    /\ attempt' = 0
    /\ fpc' = "running"
    /\ result' = NoResult
    /\ UNCHANGED <<fetcher, max_retries, error_count, caller>>
    /\ CallFrame

InitCalls ==
    /\ caller \in Callers
    /\ n_p = 0
    /\ unit = "listing"
    /\ units = 1
    /\ requests_before = 0
    /\ fetcher = fetcher_of(caller)
    /\ max_retries = GOV_PRC_max_retries
    /\ attempt = 0
    /\ fpc = "running"
    /\ result = NoResult
    /\ log = <<Call("next_url")>>
    /\ error_count = 0
    /\ ItemIdle
    /\ store = "absent"
    /\ saved_count = 0
    /\ skipped_count = 0
    /\ RunIdle
    /\ EEAIdle
    /\ PoolIdle
    /\ CatIdle
    /\ MergeIdle
    /\ PagesIdle
    /\ OrchIdle
    /\ StatsIdle
    /\ GovIdle
    /\ DownIdle

NextCalls ==
    \/ APEP_get_page_attempt
    \/ MEE_PRC_get_page_attempt
    \/ GOV_PRC_fetch_again
    \/ Caller_next_url

SpecCalls == InitCalls /\ [][NextCalls]_vars

\* C29: for one URL (one listing page or one detail item) a crawler sends at
\* most 3 requests before it gives the URL up.
C29_AtMostThreeRequestsPerUrl ==
    requests_before + requests_in(this_call(log)) <= GOV_PRC_max_retries

\* C30: between any two consecutive requests of a crawler there is a sleep
\* (the politeness delay, the request delay or a backoff wait).
C30_PauseBetweenRequests ==
    \A a, b \in DOMAIN log :
        (/\ a < b
         /\ log[a].ev = "request"
         /\ log[b].ev = "request"
         /\ \A k \in (a + 1)..(b - 1) : log[k].ev # "request")
        => \E k \in (a + 1)..(b - 1) : log[k].ev = "sleep"

\* ---------------------------------------------------------------------------
\* ECOLEX_Legislation_crawl.py: the worker threads of ThreadPoolExecutor.
\* A call of parse_detail waits in the pool's queue until one of the
\* max_workers threads is free, then fetches its detail page and parses it.
\* ---------------------------------------------------------------------------

\* one item more than there are worker threads, so that a call has to wait
FlightItems == ECOLEX_Legislation_max_workers + 1

\* page_number of the run
FlightPages == 2

\* the calls that hold a worker thread: fetching the detail page, or past it
InFlight == {k \in DOMAIN task : task[k].st \in {"fetching", "adding"}}

may_start_always(n) == TRUE

\* ThreadPoolExecutor(max_workers=5): a queued call starts when a thread is free
may_start(n) == n < ECOLEX_Legislation_max_workers

\* a worker thread takes the call from the queue: get_page(url) begins
Worker_start(k) ==
    /\ ppc = "pool"
    /\ task[k].st = "queued"
    /\ may_start(Cardinality(InFlight))
    /\ task' = [task EXCEPT ![k].st = "fetching"]
    /\ UNCHANGED <<ppc, i_1, page_number, valid_results, next_result, storeVars>>
    /\ UNCHANGED <<empty_run, write_failed, batch_base, passed, rejected>>
    /\ PoolFrame

\* the detail page comes back (or not) and parse_detail runs up to the counter
Worker_fetched(k) == parse_detail(k, "fetching")

\* the first listing page has just been fetched and its items handed to
\* pool.map; the output file may hold rows of an earlier run
InitFlight ==
    /\ store = <<Header>> \o [k \in 1..(MaxAppends - 2) |-> Row(<<"a">>, <<>>)]
    /\ saved_count = 0
    /\ skipped_count = 0
    /\ ppc = "pool"
    /\ i_1 = 1
    /\ page_number = FlightPages
    /\ \E n \in 1..FlightItems : task = [k \in 1..n |-> Queued]
    /\ valid_results = <<>>
    /\ next_result = 1
    /\ empty_run = 0
    /\ write_failed = 0
    /\ batch_base = 0
    /\ passed = 0
    /\ rejected = 0
    /\ ItemIdle
    /\ FetchIdle
    /\ RunIdle
    /\ EEAIdle
    /\ CatIdle
    /\ MergeIdle
    /\ PagesIdle
    /\ OrchIdle
    /\ CallIdle
    /\ StatsIdle
    /\ GovIdle
    /\ DownIdle

NextFlight ==
    \/ Pool_listing_page
    \/ Pool_loop_exit
    \/ \E k \in DOMAIN task : Worker_start(k)
    \/ \E k \in DOMAIN task : Worker_fetched(k)
    \/ \E k \in DOMAIN task : Worker_store(k)
    \/ Pool_collect
    \/ Pool_write

SpecFlight == InitFlight /\ [][NextFlight]_vars

MaxWebsites == 2

StatsFrame ==
    UNCHANGED <<itemVars, storeVars, fetchVars, runVars, eeaVars, poolVars, catVars, pagesVars,
                orchVars, callVars, govVars, downVars>>

\* main(): merge_stats starts at zero and the loop over the websites begins
Stats_start ==
    /\ spc = "off"
    /\ spc' = "merging"
    /\ UNCHANGED <<websites, total_old_records, total_new_records, total_merged_records,
                   total_duplicates_removed, save_failed, mergeVars>>
    /\ StatsFrame

\* one pass of `for website_name, website_info in WEBSITE_MAPPINGS.items()`:
\* merge_website_data loads and counts the two snapshots, merge_dataframes
\* counts the duplicates it removed, and the merged table is counted after
\* to_csv has written it; when to_csv raises, the `except Exception` of the
\* loop goes on to the next website.  Only the statistics are kept here: the
\* table that is written is the subject of merge_website_data above.
Stats_merge_website ==
    /\ spc = "merging"
    /\ websites < MaxWebsites
    /\ \E old \in Tables \cup {<<>>}, new \in Tables \cup {<<>>}, saved \in BOOLEAN :
          LET old_std == IF old = <<>> THEN <<>> ELSE standardize_columns(old, website_name)
              new_std == IF new = <<>> THEN <<>> ELSE standardize_columns(new, website_name)
          IN /\ Len(old) + Len(new) <= MaxRowsTogether
             /\ total_old_records' = total_old_records + Len(old_std)
             /\ total_new_records' = total_new_records + Len(new_std)
             /\ \E merged \in (IF old_std = <<>> THEN {new_std}
                               ELSE IF new_std = <<>> THEN {old_std}
                               ELSE {returned(m) : m \in merge_dataframes(old_std, new_std)}) :
                   /\ total_duplicates_removed' =
                         IF old_std # <<>> /\ new_std # <<>>
                         THEN total_duplicates_removed + (Len(old_std) + Len(new_std) - Len(merged))
                         ELSE total_duplicates_removed
                   /\ IF Len(merged) > 0 /\ saved
                      THEN /\ total_merged_records' = total_merged_records + Len(merged)
                           /\ UNCHANGED save_failed
                      ELSE /\ UNCHANGED total_merged_records
                           /\ save_failed' = (save_failed \/ Len(merged) > 0)
    /\ websites' = websites + 1
    /\ UNCHANGED <<spc, mergeVars>>
    /\ StatsFrame

\* print_summary()
Stats_summary ==
    /\ spc = "merging"
    /\ spc' = "summary"
    /\ UNCHANGED <<websites, total_old_records, total_new_records, total_merged_records,
                   total_duplicates_removed, save_failed, mergeVars>>
    /\ StatsFrame

InitStats ==
    /\ ItemIdle
    /\ store = <<Header>>
    /\ saved_count = 0
    /\ skipped_count = 0
    /\ FetchIdle
    /\ RunIdle
    /\ EEAIdle
    /\ PoolIdle
    /\ CatIdle
    /\ MergeIdle
    /\ PagesIdle
    /\ OrchIdle
    /\ CallIdle
    /\ StatsIdle
    /\ GovIdle
    /\ DownIdle

NextStats ==
    \/ Stats_start
    \/ Stats_merge_website
    \/ Stats_summary

SpecStats == InitStats /\ [][NextStats]_vars

\* C33: the accumulated log adds up: the merged records are the old records
\* plus the new records minus the duplicates removed.
C33_LogAddsUp ==
    total_merged_records = total_old_records + total_new_records - total_duplicates_removed

\* ---------------------------------------------------------------------------
\* GOV_PRC_crawl.py: the `while True` loop over the pages of one category.
\* The body of the loop is one try block; three things end the loop with
\* `break`, and its `except Exception` handler answers everything else with
\* n_k += 1.  The pass over the items of a page has its own try/except around
\* every item, so it always reaches the n_k += 1 that follows it.
\* ---------------------------------------------------------------------------

MaxGovFull == 2
MaxGovPages == 5

GOV_PRC_num_categories == 4

\* what the server answers for a page index beyond the pages that have items
\*   "empty"     {"data": []}
\*   "missing"   an object without a "data" key
\*   "null"      {"data": null}
\*   "bad_json"  a body json.loads rejects
\*   "error"     no response: get_page returns None on all three passes
Tails == {"empty", "missing", "null", "bad_json", "error"}

\* json.loads(res_1); target_list = js_data.get('data', []); len(target_list):
\* what the pass does with the answer: "break", "items", or "raise" when an
\* exception other than json.JSONDecodeError leaves the inner try
page_outcome(answer) ==
    CASE answer = "items" -> "items"
      [] answer \in {"empty", "missing"} -> "break"     \* len([]) < 1
      [] answer = "null" -> "raise"                     \* len(None): TypeError
      [] answer = "bad_json" -> "break"                 \* except json.JSONDecodeError
      [] answer = "error" -> "break"                    \* res_1 is None

GovFrame ==
    UNCHANGED <<itemVars, storeVars, fetchVars, runVars, eeaVars, poolVars, catVars, mergeVars,
                pagesVars, orchVars, callVars, statsVars, downVars>>

\* one pass of `while True`
GOV_PRC_page ==
    /\ kpc = "page"
    /\ n_k <= MaxGovPages
    /\ LET answer == IF n_k <= last_full THEN "items" ELSE server_tail
           o == page_outcome(answer)
       IN /\ kpc' = IF o = "break" THEN "break" ELSE "page"
          /\ n_k' = IF o = "break" THEN n_k ELSE n_k + 1
          /\ handled' = (o = "raise")
    /\ UNCHANGED <<gov_category, last_full, server_tail>>
    /\ GovFrame

\* after the break: the next category of num_list starts at n_k = 1, or the
\* script prints its final statistics
GOV_PRC_next_category ==
    /\ kpc = "break"
    /\ IF gov_category < GOV_PRC_num_categories
       THEN /\ gov_category' = gov_category + 1
            /\ n_k' = 1
            /\ kpc' = "page"
            /\ last_full' \in 0..MaxGovFull
            /\ server_tail' \in Tails
       ELSE /\ kpc' = "done"
            /\ UNCHANGED <<gov_category, n_k, last_full, server_tail>>
    /\ handled' = FALSE
    /\ GovFrame

InitGov ==
    /\ kpc = "page"
    /\ gov_category = 1
    /\ n_k = 1
    /\ last_full \in 0..MaxGovFull
    /\ server_tail \in Tails
    /\ handled = FALSE
    /\ ItemIdle
    /\ store = <<Header>>
    /\ saved_count = 0
    /\ skipped_count = 0
    /\ FetchIdle
    /\ RunIdle
    /\ EEAIdle
    /\ PoolIdle
    /\ CatIdle
    /\ MergeIdle
    /\ PagesIdle
    /\ OrchIdle
    /\ CallIdle
    /\ StatsIdle
    /\ DownIdle

NextGov ==
    \/ GOV_PRC_page
    \/ GOV_PRC_next_category

SpecGov == InitGov /\ [][NextGov]_vars

\* C35: the page loop of a category ends at the first page for which the
\* server returns no items or an error: no page beyond that one is requested.
C35_PageLoopEndsAtFirstEmptyPage ==
    kpc \in {"page", "break"} => n_k <= last_full + 1


(***************************************************************************)
(* cp_download.py: download_climate_policy_data clicks the export button   *)
(* and wait_for_download_completion polls ../data_new, the directory the   *)
(* other crawlers write their CSV files to.  One attempt is modelled.      *)
(* Time passes in ticks of TickSeconds seconds.                            *)
(***************************************************************************)
MaxClock == 11

TickSeconds == 30

DOWNLOAD_TIMEOUT == 300

\* `if file_age < 60`
recent_seconds == 60

DownFrame ==
    UNCHANGED <<itemVars, storeVars, fetchVars, runVars, eeaVars, poolVars, catVars, mergeVars,
                pagesVars, orchVars, callVars, statsVars, govVars>>

\* Path(download_dir).glob("*.crdownload")
crdownload_files == {f \in download_dir : f.name = "export.csv.crdownload"}

\* Path(download_dir).glob("*.csv")
csv_files == download_dir \ crdownload_files

\* time.time() - latest_file.stat().st_mtime
file_age(f) == (now - f.mtime) * TickSeconds

\* max(csv_files, key=lambda p: p.stat().st_mtime); the glob order decides a tie
latest_files == {f \in csv_files : \A g \in csv_files : g.mtime <= f.mtime}

\* driver.execute_script("arguments[0].click();", button) and the first
\* statement of wait_for_download_completion
Down_click ==
    /\ dpc = "off"
    /\ dpc' = "waiting"
    /\ start_time' = now
    /\ UNCHANGED <<now, download_dir, downloaded_file, final_file>>
    /\ DownFrame

\* the browser starts to write the export, some time after the click
Chrome_begin ==
    /\ dpc = "waiting"
    /\ \A f \in download_dir : f.origin # "download"
    /\ download_dir' = download_dir \cup
          {[name |-> "export.csv.crdownload", mtime |-> now, origin |-> "download"]}
    /\ UNCHANGED <<dpc, now, start_time, downloaded_file, final_file>>
    /\ DownFrame

\* the browser finishes the export and gives the file its name
Chrome_complete ==
    /\ crdownload_files # {}
    /\ download_dir' = (download_dir \ crdownload_files) \cup
          {[name |-> "export.csv", mtime |-> now, origin |-> "download"]}
    /\ UNCHANGED <<dpc, now, start_time, downloaded_file, final_file>>
    /\ DownFrame

\* another crawler creates its output file in ../data_new or appends a row
Crawler_write ==
    /\ download_dir' = {f \in download_dir : f.name # "MEE_PRC_policies.csv"} \cup
          {[name |-> "MEE_PRC_policies.csv", mtime |-> now, origin |-> "crawler"]}
    /\ UNCHANGED <<dpc, now, start_time, downloaded_file, final_file>>
    /\ DownFrame

Tick ==
    /\ now < MaxClock
    /\ now' = now + 1
    /\ UNCHANGED <<dpc, start_time, download_dir, downloaded_file, final_file>>
    /\ DownFrame

\* one pass of `while time.time() - start_time < timeout`, or its end
wait_for_download_completion ==
    /\ dpc = "waiting"
    /\ IF (now - start_time) * TickSeconds >= DOWNLOAD_TIMEOUT
         THEN dpc' = "timeout" /\ UNCHANGED downloaded_file
         ELSE IF crdownload_files = {} /\ csv_files # {}
           THEN \E latest_file \in latest_files :
                   IF file_age(latest_file) < recent_seconds
                     THEN dpc' = "found" /\ downloaded_file' = latest_file
                     ELSE UNCHANGED <<dpc, downloaded_file>>
           ELSE UNCHANGED <<dpc, downloaded_file>>
    /\ UNCHANGED <<now, start_time, download_dir, final_file>>
    /\ DownFrame

\* downloaded_file.rename(final_path) ... return final_path
Down_rename ==
    /\ dpc = "found"
    /\ LET here == {f \in download_dir : f.name = downloaded_file.name}
           renamed == {[f EXCEPT !.name = "climate_policy_database.csv"] : f \in here}
       IN  /\ download_dir' = (download_dir \ here) \cup renamed
           /\ \E f \in renamed : final_file' = f
    /\ dpc' = "returned"
    /\ UNCHANGED <<now, start_time, downloaded_file>>
    /\ DownFrame

InitDown ==
    /\ store = "absent"
    /\ saved_count = 0
    /\ skipped_count = 0
    /\ DownIdle
    /\ ItemIdle
    /\ FetchIdle
    /\ RunIdle
    /\ EEAIdle
    /\ PoolIdle
    /\ CatIdle
    /\ MergeIdle
    /\ PagesIdle
    /\ OrchIdle
    /\ CallIdle
    /\ StatsIdle
    /\ GovIdle

NextDown ==
    \/ Down_click
    \/ Chrome_begin
    \/ Chrome_complete
    \/ Crawler_write
    \/ Tick
    \/ wait_for_download_completion
    \/ Down_rename

SpecDown == InitDown /\ [][NextDown]_vars

\* C39: the file download_climate_policy_data renames and returns is a file
\* the download it triggered produced, never a CSV another crawler wrote
\* into the same directory.
C39_ReturnedFileIsTheDownload ==
    dpc = "returned" => final_file.origin = "download"

====
